---- MODULE Spec2Model ----
(***************************************************************************)
(* Blind-comparison encode/decode protocol of the DeepSink user study:     *)
(* the comparison-set builder (create_comparison_videos.py), the order     *)
(* sheet parsers and decoders, and the aggregation pipelines under         *)
(* src/data.                                                               *)
(*                                                                         *)
(* Text is modelled as a sequence of tokens.  A token is a piece of text   *)
(* that none of the program's string operations cuts in two ("clip_01",    *)
(* ".mp4", "_comparison", ":", " ", "Model A", "=", ...), so substring     *)
(* tests, split, replace and strip are computed on token sequences the way *)
(* Python computes them on characters.                                     *)
(***************************************************************************)
EXTENDS Integers, Sequences, FiniteSets, TLC

(* ------------------------------ bounds -------------------------------- *)

\* number of distinct video identities that may lie in the model folders
NumVideos == 2

(* --------------------------- text helpers ------------------------------ *)

\* Python's None
None == <<"<None>">>

\* s[i:] of Python with i counted from 1
Drop(s, n) == SubSeq(s, n + 1, Len(s))

\* s.startswith(p)
StartsWith(s, p) == Len(p) <= Len(s) /\ SubSeq(s, 1, Len(p)) = p

\* s.endswith(p)
EndsWith(s, p) == Len(p) <= Len(s) /\ SubSeq(s, Len(s) - Len(p) + 1, Len(s)) = p

\* p in s
Contains(s, p) == \E i \in 0..(Len(s) - Len(p)) : SubSeq(s, i + 1, i + Len(p)) = p

\* s.find(p, from): index (from 0) of the first occurrence at or after from, -1 if none
Find(s, p, from) ==
    LET hits == {i \in from..(Len(s) - Len(p)) : SubSeq(s, i + 1, i + Len(p)) = p}
    IN IF hits = {} THEN -1 ELSE CHOOSE i \in hits : \A j \in hits : i <= j

\* s.replace(old, new), old not empty
RECURSIVE Replace(_, _, _)
Replace(s, old, new) ==
    IF s = <<>> THEN <<>>
    ELSE IF StartsWith(s, old) THEN new \o Replace(Drop(s, Len(old)), old, new)
    ELSE <<Head(s)>> \o Replace(Tail(s), old, new)

\* s.split(sep), sep not empty: the list of the parts
RECURSIVE SplitFrom(_, _, _)
SplitFrom(s, sep, cur) ==
    IF s = <<>> THEN <<cur>>
    ELSE IF StartsWith(s, sep) THEN <<cur>> \o SplitFrom(Drop(s, Len(sep)), sep, <<>>)
    ELSE SplitFrom(Tail(s), sep, Append(cur, Head(s)))

Split(s, sep) == SplitFrom(s, sep, <<>>)

\* s.strip(): blanks are the tokens " "
RECURSIVE LStrip(_)
LStrip(s) == IF s # <<>> /\ Head(s) = " " THEN LStrip(Tail(s)) ELSE s

RECURSIVE RStrip(_)
RStrip(s) == IF s # <<>> /\ s[Len(s)] = " " THEN RStrip(SubSeq(s, 1, Len(s) - 1)) ELSE s

Strip(s) == RStrip(LStrip(s))

\* dict assignment d[k] = v
Put(d, k, v) == [x \in DOMAIN d \cup {k} |-> IF x = k THEN v ELSE d[x]]

EmptyDict == [x \in {} |-> None]

(* ------------------------- study configuration ------------------------- *)

\* the clip names, in Python's string order
BaseNames == <<"clip_01", "clip_02", "clip_03", "clip_04">>

Bases == {BaseNames[i] : i \in 1..NumVideos}

\* the .mp4 files a model folder may hold
Files == {<<b, ".mp4">> : b \in Bases}

DEEPSINK == <<"deepsink">>

\* (model1_folder, model2_folder, comparison_name): the first two of the four sets
COMPARISON_SETS ==
    << [model1 |-> DEEPSINK, model2 |-> <<"self_forcing">>,
        name |-> <<"deepsink", "_vs_", "self_forcing">>],
       [model1 |-> DEEPSINK, model2 |-> <<"long_live">>,
        name |-> <<"deepsink", "_vs_", "long_live">>] >>

SetIdx == 1..Len(COMPARISON_SETS)

PairNames == {COMPARISON_SETS[i].name : i \in SetIdx}

Models == {COMPARISON_SETS[i].model1 : i \in SetIdx} \cup {COMPARISON_SETS[i].model2 : i \in SetIdx}

\* baseline_name_map.get(model2_folder, model2_folder)
baseline_name_map(model2_folder) == model2_folder

(* ------------------------------- state --------------------------------- *)

VARIABLES
    \* create_comparison_videos.py
    folders,              \* os.listdir of each model folder under RAW_VIDEOS_DIR
    rngStream,            \* the values random.choice has produced since random.seed(42)
    seeded_outputs,       \* what the generator seeded with 42 yields, as far as a run has seen
    setIdx,               \* main: index of the comparison set being built
    bpc,                  \* "main" | "loop" | "done"
    todo,                 \* create_comparison_set: videos of sorted(common_videos) still to do
    order_sheet_entries,  \* create_comparison_set: order_sheet_entries
    success_count,
    fail_count,
    total_success,
    total_fail,
    exit_code,            \* main's return value, None while running
    renders,              \* the comparison videos ffmpeg has written
    order_sheet_file,     \* comparison name -> lines of <OUTPUT_DIR>/<name>/order_sheet.txt
    written_entries,      \* history: comparison name -> the entries its order sheet was written from
    \* data/aggregate_results.py
    apc,                  \* "none" before a UserStudyAggregator is constructed, then "ready"
    order_sheets,         \* UserStudyAggregator.order_sheets
    lookup,               \* the last single decode call and what it returned
    \* the response records and the analysis run over them
    records,              \* the response records collected (one JSON record each)
    report,               \* what the analysis script that was run has produced
    \* the fetch of the issues from the repository
    remote,               \* the remote's listing under the label: TRUE where the item is a pull request
    fetch_tool,           \* the function fetching: "none" before one is called
    fpc,                  \* "idle" | "loop" | "returned" | "raised"
    page,                 \* the page requested next
    all_issues,           \* the issues (or results) collected so far
    fetch_failed,         \* history: a request of this fetch came back with an error status
    \* prepare_raw_videos.py
    file_mapping,         \* video number -> the models a source file was found for
    ppc,                  \* copy_videos_for_duration: "idle" | "loop" | "returned"
    video_todo,           \* the video numbers still to process
    copy_success_count,   \* copy_videos_for_duration: success_count
    copy_fail_count,      \* copy_videos_for_duration: fail_count
    copied                \* the files shutil.copy2 has written: <<model, video number>>

builderVars == <<folders, rngStream, seeded_outputs, setIdx, bpc, todo, order_sheet_entries, success_count,
                 fail_count, total_success, total_fail, exit_code, renders, order_sheet_file,
                 written_entries>>

aggVars == <<apc, order_sheets, lookup, records, report>>

fetchVars == <<remote, fetch_tool, fpc, page, all_issues, fetch_failed>>

prepVars == <<file_mapping, ppc, video_todo, copy_success_count, copy_fail_count, copied>>

toolVars == <<fetchVars, prepVars>>

vars == <<builderVars, aggVars, toolVars>>

(* ------------------- create_comparison_videos.py ----------------------- *)

Orders == {"left", "right"}

\* sorted(): the names are compared as Python compares strings
Rank(tok) == CHOOSE i \in 1..Len(BaseNames) : BaseNames[i] = tok

NameLeq(a, b) == Rank(a[1]) <= Rank(b[1])

RECURSIVE sorted(_)
sorted(S) ==
    IF S = {} THEN <<>>
    ELSE LET m == CHOOSE x \in S : \A y \in S : NameLeq(x, y)
         IN <<m>> \o sorted(S \ {m})

\* [f for f in os.listdir(path) if f.endswith('.mp4')]
mp4_videos(listing) == {f \in listing : EndsWith(f, <<".mp4">>)}

\* create_comparison_video returning the labels of the other placement
create_comparison_video_labels_swapped(video1_path, video2_path, output_path, order) ==
    IF order = "left"
    THEN [left_video |-> video1_path, right_video |-> video2_path, output |-> output_path,
          model_a |-> <<"baseline">>, model_b |-> <<"deepsink">>]
    ELSE [left_video |-> video2_path, right_video |-> video1_path, output |-> output_path,
          model_a |-> <<"deepsink">>, model_b |-> <<"baseline">>]

\* create_comparison_video: which input goes left, and the labels it returns
create_comparison_video(video1_path, video2_path, output_path, order) ==
    IF order = "left"
    THEN [left_video |-> video1_path, right_video |-> video2_path, output |-> output_path,
          model_a |-> <<"deepsink">>, model_b |-> <<"baseline">>]
    ELSE [left_video |-> video2_path, right_video |-> video1_path, output |-> output_path,
          model_a |-> <<"baseline">>, model_b |-> <<"deepsink">>]

\* the labels create_comparison_video returned, left as they are
actual_models_unmapped(model_a, baseline_name) ==
    IF model_a = <<"deepsink">>
    THEN [model_a |-> <<"deepsink">>, model_b |-> <<"baseline">>]
    ELSE [model_a |-> <<"baseline">>, model_b |-> <<"deepsink">>]

\* "Map to actual model names"
actual_models(model_a, baseline_name) ==
    IF model_a = <<"deepsink">>
    THEN [model_a |-> <<"deepsink">>, model_b |-> baseline_name]
    ELSE [model_a |-> baseline_name, model_b |-> <<"deepsink">>]

\* the entry appended to order_sheet_entries
order_sheet_entry(video_file, model_a, baseline_name) ==
    [filename |-> video_file,
     model_a |-> actual_models(model_a, baseline_name).model_a,
     model_b |-> actual_models(model_a, baseline_name).model_b]

\* "=" * 50 and "-" * 50: one token each, no operation looks inside a rule
Rule(ch) ==
    IF ch = "=" THEN <<"==================================================">>
    ELSE <<"--------------------------------------------------">>

\* f"{filename}: Model A = {model_a}, Model B = {model_b}"
entry_line(entry) ==
    entry.filename \o <<":", " ", "Model A", " ", "=", " ">> \o entry.model_a
                   \o <<",", " ", "Model B", " ", "=", " ">> \o entry.model_b

\* the lines create_comparison_set writes to order_sheet.txt
order_sheet_lines(comparison_name, baseline_name, entries) ==
    << <<"Blind Test Order Sheet for", " ">> \o comparison_name,
       Rule("="),
       <<"Original Method A", ":", " ", "deepsink">>,
       <<"Original Method B", ":", " ">> \o baseline_name,
       <<>>,
       <<"Randomized Order", " ", "(filename ->", " ", "Model A", " ", "=", " ", "?", ",",
         " ", "Model B", " ", "=", " ", "?)", ":">>,
       Rule("-") >>
    \o [i \in 1..Len(entries) |-> entry_line(entries[i])]

CurSet == COMPARISON_SETS[setIdx]

\* create_comparison_set up to its loop: list both folders, intersect, reset the tallies
StartSet ==
    /\ bpc = "main"
    /\ setIdx \in SetIdx
    /\ LET model1_videos == mp4_videos(folders[CurSet.model1])
           model2_videos == mp4_videos(folders[CurSet.model2])
           common_videos == model1_videos \cap model2_videos
       IN IF common_videos = {}
          THEN \* return 0, 0: no order sheet is written
               /\ setIdx' = setIdx + 1
               /\ UNCHANGED <<bpc, todo, order_sheet_entries, success_count, fail_count>>
          ELSE /\ bpc' = "loop"
               /\ todo' = sorted(common_videos)
               /\ order_sheet_entries' = <<>>
               /\ success_count' = 0
               /\ fail_count' = 0
               /\ UNCHANGED setIdx
    /\ UNCHANGED <<folders, rngStream, seeded_outputs, total_success, total_fail, exit_code, renders,
                   order_sheet_file, written_entries, aggVars, toolVars>>

\* random.choice(['left', 'right']) drawing afresh whatever the seed has yielded before
random_choice_unseeded(stream, known) == Orders

\* random.choice(['left', 'right']) after random.seed(42), stream being the values
\* drawn since the seeding: the generator is a function of the seed and the number
\* of draws, so a value it is known to yield at this position is the one drawn
random_choice(stream, known) ==
    IF Len(stream) < Len(known) THEN {known[Len(stream) + 1]} ELSE Orders

\* one iteration of the loop without its try/except: a failed render ends the loop
RenderVideo_failure_ends_loop ==
    /\ bpc = "loop"
    /\ todo # <<>>
    /\ \E order \in random_choice(rngStream, seeded_outputs), ok \in BOOLEAN :
         LET video_file == Head(todo)
             output_path == <<COMPARISON_SETS[setIdx].name,
                              Replace(video_file, <<".mp4">>, <<>>) \o <<"_comparison", ".mp4">>>>
             made == create_comparison_video(<<COMPARISON_SETS[setIdx].model1, video_file>>,
                                             <<COMPARISON_SETS[setIdx].model2, video_file>>,
                                             output_path, order)
         IN /\ rngStream' = Append(rngStream, order)
            /\ seeded_outputs' = IF Len(rngStream) < Len(seeded_outputs)
                                 THEN seeded_outputs
                                 ELSE Append(seeded_outputs, order)
            /\ IF ok
               THEN /\ todo' = Tail(todo)
                    /\ renders' = renders \cup {[left_video |-> made.left_video,
                                                 right_video |-> made.right_video,
                                                 output |-> made.output]}
                    /\ order_sheet_entries' =
                           Append(order_sheet_entries,
                                  order_sheet_entry(video_file, made.model_a,
                                                    baseline_name_map(COMPARISON_SETS[setIdx].model2)))
                    /\ success_count' = success_count + 1
                    /\ UNCHANGED fail_count
               ELSE /\ todo' = <<>>
                    /\ fail_count' = fail_count + 1
                    /\ UNCHANGED <<renders, order_sheet_entries, success_count>>
    /\ UNCHANGED <<folders, setIdx, bpc, total_success, total_fail, exit_code,
                   order_sheet_file, written_entries, aggVars, toolVars>>

\* one iteration of the loop with the placement drawn as part of the render, so that
\* a render that fails draws nothing
RenderVideo_draw_with_render ==
    /\ bpc = "loop"
    /\ todo # <<>>
    /\ \E order \in random_choice(rngStream, seeded_outputs), ok \in BOOLEAN :
         LET video_file == Head(todo)
             output_path == <<COMPARISON_SETS[setIdx].name,
                              Replace(video_file, <<".mp4">>, <<>>) \o <<"_comparison", ".mp4">>>>
             made == create_comparison_video(<<COMPARISON_SETS[setIdx].model1, video_file>>,
                                             <<COMPARISON_SETS[setIdx].model2, video_file>>,
                                             output_path, order)
         IN /\ todo' = Tail(todo)
            /\ IF ok
               THEN /\ rngStream' = Append(rngStream, order)
                    /\ seeded_outputs' = IF Len(rngStream) < Len(seeded_outputs)
                                         THEN seeded_outputs
                                         ELSE Append(seeded_outputs, order)
                    /\ renders' = renders \cup {[left_video |-> made.left_video,
                                                 right_video |-> made.right_video,
                                                 output |-> made.output]}
                    /\ order_sheet_entries' =
                           Append(order_sheet_entries,
                                  order_sheet_entry(video_file, made.model_a,
                                                    baseline_name_map(COMPARISON_SETS[setIdx].model2)))
                    /\ success_count' = success_count + 1
                    /\ UNCHANGED fail_count
               ELSE /\ fail_count' = fail_count + 1
                    /\ UNCHANGED <<rngStream, seeded_outputs, renders, order_sheet_entries,
                                   success_count>>
    /\ UNCHANGED <<folders, setIdx, bpc, total_success, total_fail, exit_code,
                   order_sheet_file, written_entries, aggVars, toolVars>>

\* one iteration of "for video_file in sorted(common_videos)"
RenderVideo ==
    /\ bpc = "loop"
    /\ todo # <<>>
    /\ \E order \in random_choice(rngStream, seeded_outputs), ok \in BOOLEAN :
         LET video_file == Head(todo)
             video1_path == <<CurSet.model1, video_file>>
             video2_path == <<CurSet.model2, video_file>>
             basename == Replace(video_file, <<".mp4">>, <<>>)
             output_filename == basename \o <<"_comparison", ".mp4">>
             output_path == <<CurSet.name, output_filename>>
             made == create_comparison_video(video1_path, video2_path, output_path, order)
             baseline_name == baseline_name_map(CurSet.model2)
         IN /\ rngStream' = Append(rngStream, order)
            /\ seeded_outputs' = IF Len(rngStream) < Len(seeded_outputs)
                                 THEN seeded_outputs
                                 ELSE Append(seeded_outputs, order)
            /\ todo' = Tail(todo)
            /\ IF ok
               THEN /\ renders' = renders \cup {[left_video |-> made.left_video,
                                                 right_video |-> made.right_video,
                                                 output |-> made.output]}
                    /\ order_sheet_entries' =
                           Append(order_sheet_entries,
                                  order_sheet_entry(video_file, made.model_a, baseline_name))
                    /\ success_count' = success_count + 1
                    /\ UNCHANGED fail_count
               ELSE /\ fail_count' = fail_count + 1
                    /\ UNCHANGED <<renders, order_sheet_entries, success_count>>
    /\ UNCHANGED <<folders, setIdx, bpc, total_success, total_fail, exit_code,
                   order_sheet_file, written_entries, aggVars, toolVars>>

\* after the loop: write order_sheet.txt, return the tallies to main
WriteOrderSheet ==
    /\ bpc = "loop"
    /\ todo = <<>>
    /\ order_sheet_file' =
           Put(order_sheet_file, CurSet.name,
               order_sheet_lines(CurSet.name, baseline_name_map(CurSet.model2),
                                 order_sheet_entries))
    /\ written_entries' = Put(written_entries, CurSet.name, order_sheet_entries)
    /\ total_success' = total_success + success_count
    /\ total_fail' = total_fail + fail_count
    /\ setIdx' = setIdx + 1
    /\ bpc' = "main"
    /\ UNCHANGED <<folders, rngStream, seeded_outputs, todo, order_sheet_entries, success_count, fail_count,
                   exit_code, renders, aggVars, toolVars>>

\* main after its loop: return 0 if total_fail == 0 else 1
MainReturn ==
    /\ bpc = "main"
    /\ setIdx = Len(COMPARISON_SETS) + 1
    /\ bpc' = "done"
    /\ exit_code' = IF total_fail = 0 THEN 0 ELSE 1
    /\ UNCHANGED <<folders, rngStream, seeded_outputs, setIdx, todo, order_sheet_entries, success_count,
                   fail_count, total_success, total_fail, renders, order_sheet_file,
                   written_entries, aggVars, toolVars>>

\* the script is run again over the same folders: the module is loaded, which seeds
\* the generator with 42, and main starts; the files written before stay on disk
Rerun ==
    /\ bpc = "done"
    /\ apc = "none"
    /\ rngStream' = <<>>
    /\ setIdx' = 1
    /\ bpc' = "main"
    /\ todo' = <<>>
    /\ order_sheet_entries' = <<>>
    /\ success_count' = 0
    /\ fail_count' = 0
    /\ total_success' = 0
    /\ total_fail' = 0
    /\ exit_code' = None
    /\ UNCHANGED <<folders, seeded_outputs, renders, order_sheet_file, written_entries, aggVars, toolVars>>

(* ---------------- data/aggregate_results.py: order sheets --------------- *)

\* a raw choice given as a JSON string
Str(c) == [kind |-> "str", s |-> c]

SepModelA == <<":", " ", "Model A", " ", "=", " ">>
SepModelB == <<",", " ", "Model B", " ", "=", " ">>

\* UserStudyAggregator.parse_order_sheet: the body of its loop for one line.
\* acc = [mapping, failed]; failed is set when the unpacking of the split raises,
\* which the enclosing try/except turns into the end of the parse.
parse_order_line(acc, rawline) ==
    LET line == Strip(rawline)
    IN IF acc.failed THEN acc
       ELSE IF Contains(line, <<":">>) /\ Contains(line, <<"Model A", " ", "=">>)
       THEN LET parts == Split(line, SepModelA)
            IN IF Len(parts) = 2
               THEN LET filename == Strip(parts[1])
                        order_info == Strip(parts[2])
                    IN IF Contains(order_info, SepModelB)
                       THEN LET ab == Split(order_info, SepModelB)
                            IN IF Len(ab) = 2
                               THEN [acc EXCEPT !.mapping =
                                        Put(acc.mapping, filename,
                                            [model_a |-> Strip(ab[1]),
                                             model_b |-> Strip(ab[2])])]
                               ELSE [acc EXCEPT !.failed = TRUE]
                       ELSE acc
               ELSE acc
       ELSE acc

RECURSIVE parse_order_lines(_, _)
parse_order_lines(acc, lines) ==
    IF lines = <<>> THEN acc
    ELSE parse_order_lines(parse_order_line(acc, Head(lines)), Tail(lines))

\* UserStudyAggregator.parse_order_sheet
parse_order_sheet(lines) ==
    parse_order_lines([mapping |-> EmptyDict, failed |-> FALSE], lines).mapping

\* UserStudyAggregator.load_order_sheets, study_config.json naming every comparison
\* set with its order_file; a set whose file does not exist gets no sheet
load_order_sheets(files) ==
    [name \in PairNames \cap DOMAIN files |-> parse_order_sheet(files[name])]

\* possible_keys without the key that drops the "_comparison" infix
possible_keys_no_infix(video_filename) ==
    LET video_key == Replace(video_filename, <<".mp4">>, <<>>)
    IN << video_key,
          video_filename,
          video_key \o <<"_comparison", ".mp4">> >>

\* decode_response: the keys tried, in order
possible_keys(video_filename) ==
    LET video_key == Replace(video_filename, <<".mp4">>, <<>>)
    IN << video_key,
          video_filename,
          video_key \o <<"_comparison", ".mp4">>,
          Replace(video_key, <<"_comparison">>, <<>>) >>

\* the first of keys that is in the mapping, None if there is none
RECURSIVE first_key(_, _)
first_key(keys, mapping) ==
    IF keys = <<>> THEN None
    ELSE IF Head(keys) \in DOMAIN mapping THEN Head(keys)
    ELSE first_key(Tail(keys), mapping)

\* decode_response with the branch for 'B' returning the models as for 'A'
decode_response_b_as_a(sheets, comparison_name, video_filename, choice) ==
    IF comparison_name \notin DOMAIN sheets
    THEN [chosen |-> None, other |-> None, status |-> "No order sheet found"]
    ELSE LET key == first_key(possible_keys(video_filename), sheets[comparison_name])
         IN IF key = None
            THEN [chosen |-> None, other |-> None, status |-> "not found in order sheet"]
            ELSE LET order_info == sheets[comparison_name][key]
                 IN IF choice = Str("A") \/ choice = Str("B")
                    THEN [chosen |-> order_info.model_a, other |-> order_info.model_b,
                          status |-> "success"]
                    ELSE [chosen |-> None, other |-> None, status |-> "Invalid choice"]

\* UserStudyAggregator.decode_response
decode_response(sheets, comparison_name, video_filename, choice) ==
    IF comparison_name \notin DOMAIN sheets
    THEN [chosen |-> None, other |-> None, status |-> "No order sheet found"]
    ELSE LET key == first_key(possible_keys(video_filename), sheets[comparison_name])
         IN IF key = None
            THEN [chosen |-> None, other |-> None, status |-> "not found in order sheet"]
            ELSE LET order_info == sheets[comparison_name][key]
                 IN IF choice = Str("A")
                    THEN [chosen |-> order_info.model_a, other |-> order_info.model_b,
                          status |-> "success"]
                    ELSE IF choice = Str("B")
                    THEN [chosen |-> order_info.model_b, other |-> order_info.model_a,
                          status |-> "success"]
                    ELSE [chosen |-> None, other |-> None, status |-> "Invalid choice"]

NoLookup == [tool |-> "none"]

NoReport == [tool |-> "none"]

\* UserStudyAggregator.__init__ once the builder has finished
NewAggregator ==
    /\ bpc = "done"
    /\ apc = "none"
    /\ apc' = "ready"
    /\ order_sheets' = load_order_sheets(order_sheet_file)
    /\ UNCHANGED <<builderVars, toolVars, lookup, records, report>>

(* -------------- data/collect_simple_fixed.py: order sheets -------------- *)

ModelAEq == <<"Model A", " ", "=", " ">>
ModelBEq == <<"Model B", " ", "=", " ">>

\* s[a:b] of Python for a >= 0; b = -1 stops before the last token
Slice(s, a, b) ==
    LET stop == IF b < 0 THEN Len(s) + b ELSE IF b > Len(s) THEN Len(s) ELSE b
    IN SubSeq(s, a + 1, stop)

\* collect_simple_fixed.parse_order_sheet: the body of its loop for one line.
\* acc = [mapping, in_mapping_section]
fixed_parse_line(acc, rawline) ==
    LET line == Strip(rawline)
    IN IF Contains(line, <<"Randomized Order">>)
       THEN [acc EXCEPT !.in_mapping_section = TRUE]
       ELSE IF acc.in_mapping_section /\ Contains(line, <<":">>) /\ Contains(line, <<"Model A">>)
       THEN LET parts == Split(line, <<":">>)
            IN IF Len(parts) >= 2
               THEN LET filename == Strip(parts[1])
                        mapping_part == Strip(parts[2])
                    IN IF Contains(mapping_part, ModelAEq) /\ Contains(mapping_part, ModelBEq)
                       THEN LET model_a_start == Find(mapping_part, ModelAEq, 0) + Len(ModelAEq)
                                model_b_start == Find(mapping_part, ModelBEq, 0) + Len(ModelBEq)
                                comma == Find(mapping_part, <<",">>, model_a_start)
                                model_a_end ==
                                    IF comma = -1
                                    THEN Find(mapping_part, <<" ", "Model B">>, model_a_start)
                                    ELSE comma
                                model_a == Strip(Slice(mapping_part, model_a_start, model_a_end))
                                model_b == Strip(Drop(mapping_part, model_b_start))
                                base_filename == Replace(filename, <<".mp4">>, <<>>)
                                comparison_filename == base_filename \o <<"_comparison", ".mp4">>
                                m == [model_a |-> model_a, model_b |-> model_b]
                            IN [acc EXCEPT !.mapping =
                                   Put(Put(acc.mapping, filename, m), comparison_filename, m)]
                       ELSE acc
               ELSE acc
       ELSE acc

RECURSIVE fixed_parse_lines(_, _)
fixed_parse_lines(acc, lines) ==
    IF lines = <<>> THEN acc
    ELSE fixed_parse_lines(fixed_parse_line(acc, Head(lines)), Tail(lines))

\* collect_simple_fixed.parse_order_sheet
fixed_parse_order_sheet(lines) ==
    fixed_parse_lines([mapping |-> EmptyDict, in_mapping_section |-> FALSE], lines).mapping

\* collect_simple_fixed.load_order_sheets: comparison_folders are the deepsink_vs_* sets
fixed_load_order_sheets(files) ==
    [folder \in PairNames \cap DOMAIN files |-> fixed_parse_order_sheet(files[folder])]

\* decode_choice: the keys tried, in order
fixed_possible_keys(video_filename) ==
    << video_filename,
       Replace(video_filename, <<"_comparison", ".mp4">>, <<".mp4">>),
       Replace(video_filename, <<".mp4">>, <<>>) \o <<".mp4">>,
       Replace(video_filename, <<"_comparison">>, <<>>) >>

\* decode_choice taking every choice other than 'A' for 'B'
decode_choice_else_b(comparison_name, video_filename, choice, sheets) ==
    IF comparison_name \notin DOMAIN sheets
    THEN [chosen |-> None, other |-> None]
    ELSE LET order_mapping == sheets[comparison_name]
             key == first_key(fixed_possible_keys(video_filename), order_mapping)
         IN IF key = None
            THEN [chosen |-> None, other |-> None]
            ELSE IF choice = Str("A")
            THEN [chosen |-> order_mapping[key].model_a, other |-> order_mapping[key].model_b]
            ELSE [chosen |-> order_mapping[key].model_b, other |-> order_mapping[key].model_a]

\* collect_simple_fixed.decode_choice
decode_choice(comparison_name, video_filename, choice, sheets) ==
    IF comparison_name \notin DOMAIN sheets
    THEN [chosen |-> None, other |-> None]
    ELSE LET order_mapping == sheets[comparison_name]
             key == first_key(fixed_possible_keys(video_filename), order_mapping)
         IN IF key = None
            THEN [chosen |-> None, other |-> None]
            ELSE IF choice = Str("A")
            THEN [chosen |-> order_mapping[key].model_a, other |-> order_mapping[key].model_b]
            ELSE IF choice = Str("B")
            THEN [chosen |-> order_mapping[key].model_b, other |-> order_mapping[key].model_a]
            ELSE [chosen |-> None, other |-> None]

(* ---------------------- single decode calls ----------------------------- *)

\* the names a response may give a video: a clip name as stored, without the
\* suffix, as the rendered comparison video, and a clip that was never distributed
RequestNames ==
    UNION {{<<b>>, <<b, ".mp4">>, <<b, "_comparison", ".mp4">>} : b \in Bases}
    \cup {<<"clip_99", ".mp4">>}

RawChoices == {Str("A"), Str("B"), Str("C")}

\* a call of UserStudyAggregator.decode_response
DecodeResponse ==
    /\ apc = "ready"
    /\ lookup = NoLookup
    /\ \E comparison_name \in PairNames, video_filename \in RequestNames, choice \in RawChoices :
         lookup' = [tool |-> "decode_response", comparison_name |-> comparison_name,
                    video_filename |-> video_filename, choice |-> choice,
                    result |-> decode_response(order_sheets, comparison_name,
                                               video_filename, choice)]
    /\ UNCHANGED <<builderVars, toolVars, apc, order_sheets, records, report>>

\* a call of collect_simple_fixed.decode_choice on the sheets its main has loaded
DecodeChoice ==
    /\ bpc = "done"
    /\ apc = "ready"
    /\ lookup = NoLookup
    /\ \E comparison_name \in PairNames, video_filename \in RequestNames, choice \in RawChoices :
         lookup' = [tool |-> "decode_choice", comparison_name |-> comparison_name,
                    video_filename |-> video_filename, choice |-> choice,
                    result |-> decode_choice(comparison_name, video_filename, choice,
                                             fixed_load_order_sheets(order_sheet_file))]
    /\ UNCHANGED <<builderVars, toolVars, apc, order_sheets, records, report>>

(* ------------------------- response records ----------------------------- *)

\* a missing raw choice (dict.get returning None), comparable with 'A' and 'B'
NoChoice == "<None>"

\* a structured response {'answers': {question: choice, ...}}, in insertion order
Answers(pairs) == [kind |-> "dict", answers |-> pairs]

\* the old object format {'choice': c}
ChoiceObj(c) == [kind |-> "dict", choice |-> c]

\* a response that is neither a JSON string nor a JSON object
Number == [kind |-> "number"]

\* isinstance(x, str), isinstance(x, dict) and key in x
IsStr(x) == x.kind = "str"
IsDict(x) == x.kind = "dict"
HasKey(x, k) == IsDict(x) /\ k \in DOMAIN x

\* answers.get(question)
AnswersGet(answers, q) ==
    IF \E i \in 1..Len(answers) : answers[i][1] = q
    THEN answers[CHOOSE i \in 1..Len(answers) : answers[i][1] = q][2]
    ELSE NoChoice

\* defaultdict(int): d[k] and d[k] += 1
Get0(f, k) == IF k \in DOMAIN f THEN f[k] ELSE 0

\* a counter that is set to one where it should be incremented
Inc_overwrite(f, k) == Put(f, k, 1)

\* defaultdict(int): d[k] += 1
Inc(f, k) == Put(f, k, Get0(f, k) + 1)

\* the (comparison, video, response) items of all records, in the order the nested
\* loops over result['responses'] visit them, each with its participant
RECURSIVE AllItems(_)
AllItems(recs) ==
    IF recs = <<>> THEN <<>>
    ELSE [i \in 1..Len(Head(recs).responses) |->
             [participant_id |-> Head(recs).participantId,
              comparison |-> Head(recs).responses[i].comparison,
              video |-> Head(recs).responses[i].video,
              data |-> Head(recs).responses[i].data]]
         \o AllItems(Tail(recs))

\* pandas unique(): the values in the order of their first appearance
RECURSIVE UniqueFrom(_, _)
UniqueFrom(seq, seen) ==
    IF seq = <<>> THEN <<>>
    ELSE IF Head(seq) \in seen THEN UniqueFrom(Tail(seq), seen)
    ELSE <<Head(seq)>> \o UniqueFrom(Tail(seq), seen \cup {Head(seq)})

Unique(seq) == UniqueFrom(seq, {})

(* -------------- data/aggregate_results.py: aggregation ------------------ *)

\* process_single_result_file: the row appended for one response
file_row(sheets, item) ==
    LET dec == decode_response(sheets, item.comparison, item.video, item.data)
    IN [participant_id |-> item.participant_id,
        comparison_name |-> item.comparison,
        video_filename |-> item.video,
        choice |-> item.data,
        chosen_method |-> dec.chosen,
        other_method |-> dec.other,
        decode_status |-> dec.status]

\* process_results_directory: process_single_result_file over every file
process_results_directory(sheets, recs) ==
    LET items == AllItems(recs)
    IN [i \in 1..Len(items) |-> file_row(sheets, items[i])]

\* generate_comparison_mappings, study_config.json naming every comparison set
comparison_mappings ==
    [name \in {n \in PairNames : Len(Split(n, <<"_vs_">>)) = 2} |->
        [method_a |-> Split(name, <<"_vs_">>)[1], method_b |-> Split(name, <<"_vs_">>)[2]]]

\* wins / total without the test for total > 0
Rate_unguarded(wins, total) == [num |-> wins, den |-> total]

\* wins / total if total > 0 else 0, as a fraction
Rate(wins, total) == IF total > 0 THEN [num |-> wins, den |-> total] ELSE [num |-> 0, den |-> 1]

\* aggregate_results returning {}
EmptyResults == [empty |-> TRUE]

\* the filter of aggregate_results keeping the failed rows as well
IsSuccess_any(row) == TRUE

\* df['decode_status'] == 'success'
IsSuccess(row) == row.decode_status = "success"

\* aggregate_results: results['method_preferences']
method_preferences(successful_df) ==
    LET total_comparisons == Len(successful_df)
    IN [method \in {successful_df[i].chosen_method : i \in 1..Len(successful_df)} |->
          LET wins == Len(SelectSeq(successful_df, LAMBDA r : r.chosen_method = method))
          IN [wins |-> wins,
              total_comparisons |-> total_comparisons,
              win_rate |-> Rate(wins, total_comparisons)]]

\* aggregate_results: results['comparison_results']
comparison_results(successful_df) ==
    [comparison_name \in {successful_df[i].comparison_name : i \in 1..Len(successful_df)}
                         \cap DOMAIN comparison_mappings |->
        LET comp_df == SelectSeq(successful_df, LAMBDA r : r.comparison_name = comparison_name)
            method_a == comparison_mappings[comparison_name].method_a
            method_b == comparison_mappings[comparison_name].method_b
            method_a_wins == Len(SelectSeq(comp_df, LAMBDA r : r.chosen_method = method_a))
            method_b_wins == Len(SelectSeq(comp_df, LAMBDA r : r.chosen_method = method_b))
            total == method_a_wins + method_b_wins
        IN [method_a |-> method_a,
            method_b |-> method_b,
            method_a_wins |-> method_a_wins,
            method_b_wins |-> method_b_wins,
            total_comparisons |-> total,
            method_a_win_rate |-> Rate(method_a_wins, total),
            method_b_win_rate |-> Rate(method_b_wins, total)]]

\* UserStudyAggregator.aggregate_results
aggregate_results(responses) ==
    IF responses = <<>> THEN EmptyResults
    ELSE LET df == responses
             successful_df == SelectSeq(df, IsSuccess)
         IN IF successful_df = <<>> THEN EmptyResults
            ELSE [empty |-> FALSE,
                  summary |->
                     [total_responses |-> Len(df),
                      successful_decodes |-> Len(successful_df),
                      failed_decodes |-> Len(df) - Len(successful_df),
                      unique_participants |->
                          Cardinality({df[i].participant_id : i \in 1..Len(df)}),
                      comparison_sets |->
                          Unique([i \in 1..Len(df) |-> df[i].comparison_name])],
                  method_preferences |-> method_preferences(successful_df),
                  comparison_results |-> comparison_results(successful_df),
                  detailed_results |-> successful_df]

(* ------------- data/aggregate_results_from_github.py -------------------- *)

\* process_user_responses: the row appended for one decoded choice
github_row(item, question_name, choice, dec) ==
    [participant_id |-> item.participant_id,
     comparison_name |-> item.comparison,
     video_filename |-> item.video,
     question_name |-> question_name,
     choice |-> choice,
     chosen_method |-> dec.chosen,
     other_method |-> dec.other,
     decode_status |-> dec.status]

\* process_user_responses: the rows of one structured response, answer by answer
RECURSIVE github_answer_rows(_, _, _)
github_answer_rows(sheets, item, answers) ==
    IF answers = <<>> THEN <<>>
    ELSE LET question_name == Head(answers)[1]
             choice == Head(answers)[2]
             dec == decode_response(sheets, item.comparison, item.video, Str(choice))
         IN (IF choice \in {"A", "B"} /\ dec.status = "success"
             THEN <<github_row(item, question_name, choice, dec)>>
             ELSE <<>>)
            \o github_answer_rows(sheets, item, Tail(answers))

\* process_user_responses: the rows of one (comparison, video, response) item
github_item_rows(sheets, item) ==
    IF HasKey(item.data, "answers")
    THEN github_answer_rows(sheets, item, item.data.answers)
    ELSE IF IsStr(item.data) /\ item.data.s \in {"A", "B"}
    THEN LET dec == decode_response(sheets, item.comparison, item.video, item.data)
         IN IF dec.status = "success"
            THEN <<github_row(item, "overall_quality", item.data.s, dec)>>
            ELSE <<>>
    ELSE <<>>

\* process_github_issues: process_user_responses over the record of every issue
RECURSIVE github_rows(_, _)
github_rows(sheets, items) ==
    IF items = <<>> THEN <<>>
    ELSE github_item_rows(sheets, Head(items)) \o github_rows(sheets, Tail(items))

process_github_issues(sheets, recs) == github_rows(sheets, AllItems(recs))

(* -------------- data/collect_simple_fixed.py: analysis ------------------ *)

fixed_question_names ==
    <<"color_consistency", "dynamic_motion", "subject_consistency", "overall_quality">>

\* analyze_results_with_order_sheets: "Handle different response formats"
fixed_choice(response_data, question_name) ==
    IF HasKey(response_data, "answers")
    THEN AnswersGet(response_data.answers, question_name)
    ELSE IF IsStr(response_data)
    THEN IF question_name = "overall_quality" THEN response_data.s ELSE NoChoice
    ELSE IF HasKey(response_data, "choice")
    THEN IF question_name = "overall_quality" THEN response_data.choice ELSE NoChoice
    ELSE NoChoice

NoTally == [model_wins |-> EmptyDict, model_total |-> EmptyDict, decode_errors |-> 0]

\* the bookkeeping of one choice, leaving model_total[other_model] as it is
fixed_count_chosen_only(acc, choice, dec) ==
    IF choice \in {"A", "B"}
    THEN IF dec.chosen # None /\ dec.other # None
         THEN [acc EXCEPT !.model_wins = Inc(acc.model_wins, dec.chosen),
                          !.model_total = Inc(acc.model_total, dec.chosen)]
         ELSE [acc EXCEPT !.decode_errors = acc.decode_errors + 1]
    ELSE acc

\* analyze_results_with_order_sheets: the bookkeeping of one choice, dec being
\* what decode_choice returned for it
fixed_count(acc, choice, dec) ==
    IF choice \in {"A", "B"}
    THEN IF dec.chosen # None /\ dec.other # None
         THEN [acc EXCEPT !.model_wins = Inc(acc.model_wins, dec.chosen),
                          !.model_total = Inc(Inc(acc.model_total, dec.chosen), dec.other)]
         ELSE [acc EXCEPT !.decode_errors = acc.decode_errors + 1]
    ELSE acc

\* analyze_results_with_order_sheets: the loops over the results for one question
RECURSIVE fixed_tally(_, _, _, _)
fixed_tally(acc, items, question_name, sheets) ==
    IF items = <<>> THEN acc
    ELSE LET item == Head(items)
             choice == fixed_choice(item.data, question_name)
             dec == decode_choice(item.comparison, item.video, Str(choice), sheets)
         IN fixed_tally(fixed_count(acc, choice, dec), Tail(items), question_name, sheets)

\* collect_simple_fixed.analyze_results_with_order_sheets
analyze_results_with_order_sheets(results, sheets) ==
    IF results = <<>> THEN [analysed |-> FALSE]
    ELSE [analysed |-> TRUE,
          questions |->
              [question_name \in {fixed_question_names[i] : i \in 1..Len(fixed_question_names)} |->
                  fixed_tally(NoTally, AllItems(results), question_name, sheets)]]

\* analyze_results_old_way: the choice a response gives for a question
old_way_choice(response_data, question_name) ==
    IF HasKey(response_data, "answers")
    THEN AnswersGet(response_data.answers, question_name)
    ELSE IF IsStr(response_data)
    THEN IF question_name = "overall_quality" THEN response_data.s ELSE NoChoice
    ELSE NoChoice

\* analyze_results_old_way: the loops over the results for one question.
\* acc = [model_wins, model_total]
RECURSIVE old_way_tally(_, _, _)
old_way_tally(acc, items, question_name) ==
    IF items = <<>> THEN acc
    ELSE LET item == Head(items)
             models == Split(item.comparison, <<"_vs_">>)
             choice == old_way_choice(item.data, question_name)
         IN IF Len(models) # 2 THEN old_way_tally(acc, Tail(items), question_name)
            ELSE IF choice \in {"A", "B"}
            THEN LET chosen == IF choice = "A" THEN models[1] ELSE models[2]
                     other == IF choice = "A" THEN models[2] ELSE models[1]
                 IN old_way_tally(
                        [model_wins |-> Inc(acc.model_wins, chosen),
                         model_total |-> Inc(Inc(acc.model_total, chosen), other)],
                        Tail(items), question_name)
            ELSE old_way_tally(acc, Tail(items), question_name)

\* collect_simple_fixed.analyze_results_old_way: the counters of each question
analyze_results_old_way(results) ==
    [analysed |-> TRUE,
     questions |->
         [question_name \in {fixed_question_names[i] : i \in 1..Len(fixed_question_names)} |->
             old_way_tally([model_wins |-> EmptyDict, model_total |-> EmptyDict],
                           AllItems(results), question_name)]]

(* ------------------ data/visualize_user_study.py ------------------------ *)

\* parse_order_sheet: the loop over model_parts; acc = [model_a, model_b, failed]
RECURSIVE viz_model_parts(_, _)
viz_model_parts(acc, model_parts) ==
    IF model_parts = <<>> \/ acc.failed THEN acc
    ELSE LET part == Strip(Head(model_parts))
             halves == Split(part, <<"=">>)
         IN IF Contains(part, <<"Model A">>)
            THEN IF Len(halves) < 2 THEN [acc EXCEPT !.failed = TRUE]
                 ELSE viz_model_parts([acc EXCEPT !.model_a = Strip(halves[2])],
                                      Tail(model_parts))
            ELSE IF Contains(part, <<"Model B">>)
            THEN IF Len(halves) < 2 THEN [acc EXCEPT !.failed = TRUE]
                 ELSE viz_model_parts([acc EXCEPT !.model_b = Strip(halves[2])],
                                      Tail(model_parts))
            ELSE viz_model_parts(acc, Tail(model_parts))

\* visualize_user_study.parse_order_sheet: the body of its loop for one line.
\* acc = [mapping, failed]; failed is set when an exception ends the parse.
viz_parse_line(acc, rawline) ==
    LET line == Strip(rawline)
    IN IF acc.failed THEN acc
       ELSE IF Contains(line, <<":">>) /\ Contains(line, <<"Model A">>)
               /\ Contains(line, <<"Model B">>)
       THEN LET parts == Split(line, <<":">>)
            IN IF Len(parts) >= 2
               THEN LET filename == Strip(parts[1])
                        rest == Strip(parts[2])
                    IN IF Contains(rest, <<"Model A">>) /\ Contains(rest, <<"Model B">>)
                       THEN LET found == viz_model_parts([model_a |-> <<>>, model_b |-> <<>>,
                                                          failed |-> FALSE],
                                                         Split(rest, <<",">>))
                                comparison_filename ==
                                    Replace(filename, <<".mp4">>, <<"_comparison", ".mp4">>)
                            IN IF found.failed THEN [acc EXCEPT !.failed = TRUE]
                               ELSE IF found.model_a # <<>> /\ found.model_b # <<>>
                               THEN [acc EXCEPT !.mapping =
                                        Put(acc.mapping, comparison_filename,
                                            [A |-> found.model_a, B |-> found.model_b])]
                               ELSE acc
                       ELSE acc
               ELSE acc
       ELSE acc

RECURSIVE viz_parse_lines(_, _)
viz_parse_lines(acc, lines) ==
    IF lines = <<>> THEN acc
    ELSE viz_parse_lines(viz_parse_line(acc, Head(lines)), Tail(lines))

\* visualize_user_study.parse_order_sheet
viz_parse_order_sheet(lines) ==
    viz_parse_lines([mapping |-> EmptyDict, failed |-> FALSE], lines).mapping

\* load_order_sheets: comparison_folders
viz_comparison_folders ==
    { <<"matrix", "_vs_", "cogvideox_5b">>, <<"matrix", "_vs_", "opensora">>,
      <<"matrix", "_vs_", "tavid">>, <<"matrix", "_vs_", "wan14b">>,
      <<"cogvideox_5b", "_vs_", "opensora">>, <<"cogvideox_5b", "_vs_", "tavid">>,
      <<"cogvideox_5b", "_vs_", "wan14b">>, <<"opensora", "_vs_", "tavid">>,
      <<"opensora", "_vs_", "wan14b">>, <<"tavid", "_vs_", "wan14b">> }

\* visualize_user_study.load_order_sheets
viz_load_order_sheets(files) ==
    [folder \in viz_comparison_folders \cap DOMAIN files |-> viz_parse_order_sheet(files[folder])]

\* analyze_results: questions
viz_questions ==
    <<"interaction_accuracy", "entity_accuracy", "temporal_consistency",
      "prompt_faithfulness", "overall_quality">>

\* {q: defaultdict(int) for q in questions}
viz_counters == [q \in {viz_questions[i] : i \in 1..Len(viz_questions)} |-> EmptyDict]

\* analyze_results: "for question in questions" for one video whose mapping was found.
\* acc = [raised, model_wins, model_total]
RECURSIVE viz_question_loop(_, _, _, _)
viz_question_loop(acc, mapping, response_data, questions) ==
    IF questions = <<>> \/ acc.raised THEN acc
    ELSE LET question == Head(questions)
         IN IF ~(IsStr(response_data) \/ IsDict(response_data))
            THEN \* 'answers' in response_data raises TypeError
                 [acc EXCEPT !.raised = TRUE]
            ELSE IF HasKey(response_data, "answers")
                    /\ AnswersGet(response_data.answers, question) # NoChoice
            THEN LET choice == AnswersGet(response_data.answers, question)
                 IN IF choice \notin {"A", "B"}
                    THEN \* mapping[choice] raises KeyError
                         [acc EXCEPT !.raised = TRUE]
                    ELSE LET chosen_model == mapping[choice]
                             other_model == IF choice = "A" THEN mapping["B"] ELSE mapping["A"]
                         IN viz_question_loop(
                                [acc EXCEPT
                                   !.model_wins[question] = Inc(@, chosen_model),
                                   !.model_total[question] = Inc(Inc(@, chosen_model), other_model)],
                                mapping, response_data, Tail(questions))
            ELSE viz_question_loop(acc, mapping, response_data, Tail(questions))

\* analyze_results: the loops over the participants' responses
RECURSIVE viz_tally(_, _, _)
viz_tally(acc, items, sheets) ==
    IF items = <<>> \/ acc.raised THEN acc
    ELSE LET item == Head(items)
         IN IF item.comparison \notin DOMAIN sheets
            THEN viz_tally(acc, Tail(items), sheets)
            ELSE IF item.video \notin DOMAIN sheets[item.comparison]
            THEN viz_tally(acc, Tail(items), sheets)
            ELSE viz_tally(viz_question_loop(acc, sheets[item.comparison][item.video],
                                             item.data, viz_questions),
                           Tail(items), sheets)

\* visualize_user_study.analyze_results
viz_analyze_results(results, sheets) ==
    viz_tally([raised |-> FALSE, model_wins |-> viz_counters, model_total |-> viz_counters],
              AllItems(results), sheets)

(* --------- analyses that take the models from the pair's name ----------- *)

simple_question_names ==
    <<"interaction_accuracy", "entity_accuracy", "temporal_consistency",
      "prompt_faithfulness", "overall_quality">>

\* collect_simple.analyze_results: "Handle different response formats"
simple_choice(response_data, question_name) ==
    IF HasKey(response_data, "answers")
    THEN AnswersGet(response_data.answers, question_name)
    ELSE IF IsStr(response_data)
    THEN IF question_name = "overall_quality" THEN response_data.s ELSE NoChoice
    ELSE IF HasKey(response_data, "choice")
    THEN IF question_name = "overall_quality" THEN response_data.choice ELSE NoChoice
    ELSE NoChoice

\* collect_simple.analyze_results: the loops over the results for one question.
\* acc = [model_wins, model_total]
RECURSIVE simple_tally(_, _, _)
simple_tally(acc, items, question_name) ==
    IF items = <<>> THEN acc
    ELSE LET item == Head(items)
             models == Split(item.comparison, <<"_vs_">>)
             choice == simple_choice(item.data, question_name)
         IN IF Len(models) # 2 THEN simple_tally(acc, Tail(items), question_name)
            ELSE IF choice \in {"A", "B"}
            THEN LET chosen == IF choice = "A" THEN models[1] ELSE models[2]
                     other == IF choice = "A" THEN models[2] ELSE models[1]
                 IN simple_tally([model_wins |-> Inc(acc.model_wins, chosen),
                                  model_total |-> Inc(Inc(acc.model_total, chosen), other)],
                                 Tail(items), question_name)
            ELSE simple_tally(acc, Tail(items), question_name)

\* collect_simple.analyze_results
simple_analyze_results(results) ==
    IF results = <<>> THEN [analysed |-> FALSE]
    ELSE [analysed |-> TRUE,
          questions |->
              [question_name \in {simple_question_names[i] : i \in 1..Len(simple_question_names)} |->
                  simple_tally([model_wins |-> EmptyDict, model_total |-> EmptyDict],
                               AllItems(results), question_name)]]

\* defaultdict(lambda: {'wins': 0, 'total': 0})
GetStats(f, k) == IF k \in DOMAIN f THEN f[k] ELSE [wins |-> 0, total |-> 0]

\* stats['wins'] += 1; stats['total'] += 1 for the chosen model, stats['total'] += 1 for the other
record_win(model_comparisons, chosen_model, other_model) ==
    LET won == Put(model_comparisons, chosen_model,
                   [wins |-> GetStats(model_comparisons, chosen_model).wins + 1,
                    total |-> GetStats(model_comparisons, chosen_model).total + 1])
    IN Put(won, other_model,
           [wins |-> GetStats(won, other_model).wins,
            total |-> GetStats(won, other_model).total + 1])

\* "Calculate win rates"
with_win_rates(model_comparisons) ==
    [model \in DOMAIN model_comparisons |->
        [wins |-> model_comparisons[model].wins,
         total |-> model_comparisons[model].total,
         win_rate |-> Rate(model_comparisons[model].wins, model_comparisons[model].total)]]

\* GitHubResultsCollector.analyze_results: the loops over the results.
\* acc = [total_comparisons, model_comparisons, comparison_data]
RECURSIVE collector_tally(_, _)
collector_tally(acc, items) ==
    IF items = <<>> THEN acc
    ELSE LET item == Head(items)
             choice_data == item.data
             choice == IF IsStr(choice_data) THEN choice_data.s
                       ELSE IF HasKey(choice_data, "choice") THEN choice_data.choice
                       ELSE NoChoice
             models == Split(item.comparison, <<"_vs_">>)
             counted == [acc EXCEPT !.total_comparisons = @ + 1]
         IN IF (IsStr(choice_data) \/ IsDict(choice_data))
               /\ choice \in {"A", "B"} /\ Len(models) = 2
            THEN LET chosen_model == IF choice = "A" THEN models[1] ELSE models[2]
                     other_model == IF choice = "A" THEN models[2] ELSE models[1]
                 IN collector_tally(
                        [counted EXCEPT
                           !.model_comparisons = record_win(@, chosen_model, other_model),
                           !.comparison_data =
                               Append(@, [comparison_set |-> item.comparison,
                                          participant |-> item.participant_id,
                                          video_id |-> item.video,
                                          choice |-> choice,
                                          chosen_model |-> chosen_model])],
                        Tail(items))
            ELSE collector_tally(counted, Tail(items))

\* collect_github_results.GitHubResultsCollector.analyze_results
collector_analyze_results(results) ==
    LET done == collector_tally([total_comparisons |-> 0, model_comparisons |-> EmptyDict,
                                 comparison_data |-> <<>>], AllItems(results))
    IN [total_participants |-> Len(results),
        total_comparisons |-> done.total_comparisons,
        model_comparisons |-> with_win_rates(done.model_comparisons),
        comparison_data |-> done.comparison_data]

visualizer_question_names ==
    <<"interaction_accuracy", "entity_accuracy", "temporal_consistency",
      "prompt_faithfulness", "overall_quality">>

\* GitHubResultsVisualizer._process_choice on one question's analysis
\* [model_comparisons, participant_choices]
process_choice(question_analysis, comparison_set, choice, participant, video_id) ==
    LET models == Split(comparison_set, <<"_vs_">>)
    IN IF Len(models) = 2
       THEN LET chosen_model == IF choice = "A" THEN models[1] ELSE models[2]
                other_model == IF choice = "A" THEN models[2] ELSE models[1]
            IN [model_comparisons |->
                    record_win(question_analysis.model_comparisons, chosen_model, other_model),
                participant_choices |->
                    Append(question_analysis.participant_choices,
                           [participant |-> participant,
                            comparison_set |-> comparison_set,
                            video_id |-> video_id,
                            choice |-> choice,
                            chosen_model |-> chosen_model,
                            model_a |-> models[1],
                            model_b |-> models[2]])]
       ELSE question_analysis

\* GitHubResultsVisualizer.analyze_results: "for question in self.question_names"
\* for one response in the multi-question format
RECURSIVE visualizer_answers(_, _, _)
visualizer_answers(question_analyses, item, questions) ==
    IF questions = <<>> THEN question_analyses
    ELSE LET question == Head(questions)
             choice == AnswersGet(item.data.answers, question)
         IN visualizer_answers(
                IF choice \in {"A", "B"}
                THEN [question_analyses EXCEPT
                        ![question] = process_choice(@, item.comparison, choice,
                                                     item.participant_id, item.video)]
                ELSE question_analyses,
                item, Tail(questions))

\* GitHubResultsVisualizer.analyze_results: the loops over the results
RECURSIVE visualizer_tally(_, _)
visualizer_tally(question_analyses, items) ==
    IF items = <<>> THEN question_analyses
    ELSE LET item == Head(items)
             response_data == item.data
         IN visualizer_tally(
                IF HasKey(response_data, "answers")
                THEN visualizer_answers(question_analyses, item, visualizer_question_names)
                ELSE IF IsStr(response_data)
                THEN IF response_data.s \in {"A", "B"}
                     THEN [question_analyses EXCEPT
                             !["overall_quality"] =
                                 process_choice(@, item.comparison, response_data.s,
                                                item.participant_id, item.video)]
                     ELSE question_analyses
                ELSE IF HasKey(response_data, "choice")
                THEN IF response_data.choice \in {"A", "B"}
                     THEN [question_analyses EXCEPT
                             !["overall_quality"] =
                                 process_choice(@, item.comparison, response_data.choice,
                                                item.participant_id, item.video)]
                     ELSE question_analyses
                ELSE question_analyses,
                Tail(items))

\* collect_with_visualization.GitHubResultsVisualizer.analyze_results
visualizer_analyze_results(results) ==
    LET done == visualizer_tally(
                    [question \in {visualizer_question_names[i] :
                                      i \in 1..Len(visualizer_question_names)} |->
                        [model_comparisons |-> EmptyDict, participant_choices |-> <<>>]],
                    AllItems(results))
    IN [total_participants |-> Len(results),
        total_comparisons |-> Len(AllItems(results)),
        question_analyses |->
            [question \in DOMAIN done |->
                [model_comparisons |-> with_win_rates(done[question].model_comparisons),
                 participant_choices |-> done[question].participant_choices]]]

(* ----------------------- the analysis scripts --------------------------- *)

\* one response of a record's 'responses': responses[comparison][video] = data
Resp(comparison, video, data) == [comparison |-> comparison, video |-> video, data |-> data]

\* one response record (a result file, or the JSON block of an issue)
Rec(participantId, responses) == [participantId |-> participantId, responses |-> responses]

FirstPair == COMPARISON_SETS[1].name
SecondPair == COMPARISON_SETS[2].name
FirstClip == <<BaseNames[1], ".mp4">>
FirstRendered == <<BaseNames[1], "_comparison", ".mp4">>
UnknownClip == <<"clip_99", ".mp4">>

\* the records a participant may submit: legacy single choices, a record with an
\* invalid choice and a clip that was never distributed, the multi-question format
\* on the rendered name, an invalid answer with a choice in the old object format,
\* an unknown clip alone, and the multi-question format on the stored name
RecordPool ==
    { Rec("p1", <<Resp(FirstPair, FirstClip, Str("A"))>>),
      Rec("p2", <<Resp(SecondPair, FirstClip, Str("B"))>>),
      Rec("p1", <<Resp(FirstPair, FirstClip, Str("C")),
                  Resp(FirstPair, UnknownClip, Str("A"))>>),
      Rec("p2", <<Resp(SecondPair, FirstRendered,
                       Answers(<< <<"overall_quality", "A">>, <<"dynamic_motion", "B">> >>))>>),
      Rec("p3", <<Resp(FirstPair, FirstRendered,
                       Answers(<< <<"overall_quality", "C">> >>)),
                  Resp(FirstPair, FirstClip, ChoiceObj("B"))>>),
      Rec("p2", <<Resp(FirstPair, UnknownClip, Str("A"))>>),
      Rec("p1", <<Resp(FirstPair, FirstClip,
                       Answers(<< <<"overall_quality", "A">>, <<"dynamic_motion", "B">> >>))>>) }

\* number of response records collected before the analysis is run
MaxRecords == 2

\* a participant's record arrives (a result file is saved, an issue is opened)
SubmitRecord ==
    /\ bpc = "done"
    /\ report = NoReport
    /\ Len(records) < MaxRecords
    /\ \E r \in RecordPool : records' = Append(records, r)
    /\ UNCHANGED <<builderVars, toolVars, apc, order_sheets, lookup, report>>

\* aggregate_results.main with --results_dir
RunFileAggregator ==
    /\ bpc = "done"
    /\ apc = "none"
    /\ report = NoReport
    /\ LET sheets == load_order_sheets(order_sheet_file)
           responses == process_results_directory(sheets, records)
       IN /\ apc' = "ready"
          /\ order_sheets' = sheets
          /\ report' = [tool |-> "aggregate_results",
                        responses |-> responses,
                        results |-> IF responses = <<>> THEN EmptyResults
                                    ELSE aggregate_results(responses)]
    /\ UNCHANGED <<builderVars, toolVars, lookup, records>>

\* aggregate_results_from_github.main, the issues carrying the records
RunGitHubAggregator ==
    /\ bpc = "done"
    /\ apc = "none"
    /\ report = NoReport
    /\ LET sheets == load_order_sheets(order_sheet_file)
           all_responses == process_github_issues(sheets, records)
       IN /\ apc' = "ready"
          /\ order_sheets' = sheets
          /\ report' = [tool |-> "aggregate_results_from_github",
                        responses |-> all_responses,
                        results |-> IF all_responses = <<>> THEN EmptyResults
                                    ELSE aggregate_results(all_responses)]
    /\ UNCHANGED <<builderVars, toolVars, lookup, records>>

\* collect_simple_fixed.main, the issues carrying the records
RunFixedAnalysis ==
    /\ bpc = "done"
    /\ report = NoReport
    /\ LET sheets == fixed_load_order_sheets(order_sheet_file)
       IN report' = [tool |-> "collect_simple_fixed",
                     loaded |-> DOMAIN sheets # {},
                     analysis |-> IF DOMAIN sheets = {} THEN [analysed |-> FALSE]
                                  ELSE analyze_results_with_order_sheets(records, sheets)]
    /\ UNCHANGED <<builderVars, toolVars, apc, order_sheets, lookup, records>>

\* visualize_user_study.analyze_results called with the order sheets that
\* parse_order_sheet reads from the sheet files present
AnalyzeResults ==
    /\ bpc = "done"
    /\ report = NoReport
    /\ LET sheets == [name \in DOMAIN order_sheet_file |->
                         viz_parse_order_sheet(order_sheet_file[name])]
       IN report' = [tool |-> "analyze_results",
                     analysis |-> viz_analyze_results(records, sheets)]
    /\ UNCHANGED <<builderVars, toolVars, apc, order_sheets, lookup, records>>

\* visualize_user_study.save_visualizations up to the charts: load_order_sheets
\* with its own comparison_folders, then analyze_results
SaveVisualizations ==
    /\ bpc = "done"
    /\ report = NoReport
    /\ report' = [tool |-> "visualize_user_study",
                  analysis |-> viz_analyze_results(records,
                                                   viz_load_order_sheets(order_sheet_file))]
    /\ UNCHANGED <<builderVars, toolVars, apc, order_sheets, lookup, records>>

\* collect_simple.main's analysis of the collected results
RunSimpleAnalysis ==
    /\ bpc = "done"
    /\ report = NoReport
    /\ report' = [tool |-> "collect_simple", analysis |-> simple_analyze_results(records)]
    /\ UNCHANGED <<builderVars, toolVars, apc, order_sheets, lookup, records>>

\* GitHubResultsCollector.analyze_results on the collected results
RunCollectorAnalysis ==
    /\ bpc = "done"
    /\ report = NoReport
    /\ report' = [tool |-> "collect_github_results",
                  analysis |-> collector_analyze_results(records)]
    /\ UNCHANGED <<builderVars, toolVars, apc, order_sheets, lookup, records>>

\* GitHubResultsVisualizer.analyze_results on the collected results
RunVisualizerAnalysis ==
    /\ bpc = "done"
    /\ report = NoReport
    /\ report' = [tool |-> "collect_with_visualization",
                  analysis |-> visualizer_analyze_results(records)]
    /\ UNCHANGED <<builderVars, toolVars, apc, order_sheets, lookup, records>>

(* ---------------- fetching the issues of the repository ----------------- *)

\* params['per_page']: the number of issues the remote puts on a page
PerPage == 2

\* the number of issues and pull requests the remote may hold under the label
MaxIssues == 3

Min(a, b) == IF a <= b THEN a ELSE b

\* the issue at position i of the remote's listing
RemoteItem(listing, i) == [number |-> i, pull_request |-> listing[i]]

\* what response.json() holds for the page requested: the remote's listing cut into
\* pages of per_page items, an empty list past the last item
page_of(listing, p, per_page) ==
    [k \in 1..(Min(p * per_page, Len(listing)) - Min((p - 1) * per_page, Len(listing))) |->
        RemoteItem(listing, (p - 1) * per_page + k)]

\* the outcomes of requests.get: status 200 with a JSON body, status 200 with a body
\* that is not JSON, and an error status
Responses ==
    {[status_code |-> 200, json |-> TRUE],
     [status_code |-> 200, json |-> FALSE],
     [status_code |-> 403, json |-> FALSE]}

\* [issue for issue in issues if 'pull_request' not in issue]
without_pull_requests(issues) == SelectSeq(issues, LAMBDA issue : ~issue.pull_request)

\* the issues whose body parses to a result: parse_issue / parse_issue_result find no
\* JSON block in a pull request, the enclosing loop goes on to the next issue
parsed_results(issues) == SelectSeq(issues, LAMBDA issue : ~issue.pull_request)

\* a loop that requests the same page again
next_page_same(p) == p

\* page += 1
next_page(p) == p + 1

\* fetch_github_issues up to its loop
StartFetchGithubIssues ==
    /\ fpc = "idle"
    /\ fetch_tool' = "fetch_github_issues"
    /\ fpc' = "loop"
    /\ page' = 1
    /\ all_issues' = <<>>
    /\ UNCHANGED <<remote, fetch_failed, builderVars, aggVars, prepVars>>

\* fetch_github_issues: one iteration of "while True"
FetchGithubIssuesPage ==
    /\ fpc = "loop"
    /\ fetch_tool = "fetch_github_issues"
    /\ \E response \in Responses :
          IF response.status_code # 200
          THEN \* break
               /\ fpc' = "returned"
               /\ fetch_failed' = TRUE
               /\ UNCHANGED <<page, all_issues>>
          ELSE IF ~response.json
          THEN \* response.json() raises, nothing catches it
               /\ fpc' = "raised"
               /\ UNCHANGED <<page, all_issues, fetch_failed>>
          ELSE LET issues == page_of(remote, page, PerPage)
                   kept == without_pull_requests(issues)
               IN IF issues = <<>>
                  THEN /\ fpc' = "returned"
                       /\ UNCHANGED <<page, all_issues, fetch_failed>>
                  ELSE /\ all_issues' = all_issues \o kept
                       /\ page' = next_page(page)
                       /\ fpc' = IF Len(kept) < PerPage THEN "returned" ELSE "loop"
                       /\ UNCHANGED fetch_failed
    /\ UNCHANGED <<remote, fetch_tool, builderVars, aggVars, prepVars>>

\* collect_simple.collect_issues: one request, no page loop
CollectIssues ==
    /\ fpc = "idle"
    /\ fetch_tool' = "collect_issues"
    /\ page' = 1
    /\ \E response \in Responses :
          IF response.status_code # 200
          THEN \* return []
               /\ fpc' = "returned"
               /\ all_issues' = <<>>
               /\ fetch_failed' = TRUE
          ELSE IF ~response.json
          THEN /\ fpc' = "raised"
               /\ all_issues' = <<>>
               /\ UNCHANGED fetch_failed
          ELSE /\ fpc' = "returned"
               /\ all_issues' = parsed_results(page_of(remote, 1, PerPage))
               /\ UNCHANGED fetch_failed
    /\ UNCHANGED <<remote, builderVars, aggVars, prepVars>>

\* collect_github_results.collect_study_results up to its loop
StartCollectStudyResults ==
    /\ fpc = "idle"
    /\ fetch_tool' = "collect_study_results"
    /\ fpc' = "loop"
    /\ page' = 1
    /\ all_issues' = <<>>
    /\ UNCHANGED <<remote, fetch_failed, builderVars, aggVars, prepVars>>

\* collect_study_results: one iteration of "while True"
CollectStudyResultsPage ==
    /\ fpc = "loop"
    /\ fetch_tool = "collect_study_results"
    /\ \E response \in Responses :
          IF response.status_code # 200
          THEN /\ fpc' = "returned"
               /\ fetch_failed' = TRUE
               /\ UNCHANGED <<page, all_issues>>
          ELSE IF ~response.json
          THEN /\ fpc' = "raised"
               /\ UNCHANGED <<page, all_issues, fetch_failed>>
          ELSE LET issues == page_of(remote, page, PerPage)
               IN IF issues = <<>>
                  THEN /\ fpc' = "returned"
                       /\ UNCHANGED <<page, all_issues, fetch_failed>>
                  ELSE /\ all_issues' = all_issues \o parsed_results(issues)
                       /\ page' = next_page(page)
                       /\ UNCHANGED <<fpc, fetch_failed>>
    /\ UNCHANGED <<remote, fetch_tool, builderVars, aggVars, prepVars>>

\* no fetch has been started
FetchIdle ==
    /\ fetch_tool = "none"
    /\ fpc = "idle"
    /\ page = 0
    /\ all_issues = <<>>
    /\ fetch_failed = FALSE

(* ------------------------ prepare_raw_videos.py ------------------------- *)

\* the number of video numbers requested for a duration
MaxNumbers == 2

MODELS_TO_COPY == <<"Ours", "LongLive", "Self-Forcing", "RollingForcing", "Causvid">>

MODEL_MAPPING(model_name) ==
    CASE model_name = "Ours" -> "deepsink"
      [] model_name = "LongLive" -> "long_live"
      [] model_name = "Causvid" -> "causvid"
      [] model_name = "Self-Forcing" -> "self_forcing"
      [] model_name = "RollingForcing" -> "rolling_forcing"

\* VIDEO_NUMBERS_30S, its first numbers
VIDEO_NUMBERS_30S == SubSeq(<<2, 4, 7, 24, 42>>, 1, MaxNumbers)

VideoNumbers == {VIDEO_NUMBERS_30S[i] : i \in 1..Len(VIDEO_NUMBERS_30S)}

CopyModels == {MODELS_TO_COPY[i] : i \in 1..Len(MODELS_TO_COPY)}

\* number_to_base: the numbers the Ours directory holds a video under
number_to_base(mapping) == {num \in DOMAIN mapping : "Ours" \in mapping[num]}

\* the models of MODELS_TO_COPY that file_mapping has no file of the video for
missing_models(mapping, video_num) ==
    SelectSeq(MODELS_TO_COPY, LAMBDA model_name : model_name \notin mapping[video_num])

\* copy_videos_for_duration up to its loop
StartCopy ==
    /\ ppc = "idle"
    /\ ppc' = "loop"
    /\ video_todo' = VIDEO_NUMBERS_30S
    /\ copy_success_count' = 0
    /\ copy_fail_count' = 0
    /\ UNCHANGED <<file_mapping, copied, builderVars, aggVars, fetchVars>>

\* copy_videos_for_duration: one iteration of "for video_num in video_numbers";
\* failed holds the models whose shutil.copy2 raises
CopyVideo ==
    /\ ppc = "loop"
    /\ video_todo # <<>>
    /\ LET video_num == Head(video_todo)
       IN /\ video_todo' = Tail(video_todo)
          /\ IF video_num \notin number_to_base(file_mapping)
             THEN /\ copy_fail_count' = copy_fail_count + 1
                  /\ UNCHANGED <<copy_success_count, copied>>
             ELSE IF missing_models(file_mapping, video_num) # <<>>
             THEN /\ copy_fail_count' = copy_fail_count + 1
                  /\ UNCHANGED <<copy_success_count, copied>>
             ELSE \E failed \in SUBSET CopyModels :
                     /\ copied' = copied \cup {<<MODEL_MAPPING(model_name), video_num>> :
                                                  model_name \in CopyModels \ failed}
                     /\ copy_fail_count' = copy_fail_count + Cardinality(failed)
                     /\ copy_success_count' = copy_success_count + 1
    /\ UNCHANGED <<file_mapping, ppc, builderVars, aggVars, fetchVars>>

\* copy_videos_for_duration: return success_count, fail_count
CopyReturn ==
    /\ ppc = "loop"
    /\ video_todo = <<>>
    /\ ppc' = "returned"
    /\ UNCHANGED <<file_mapping, video_todo, copy_success_count, copy_fail_count, copied,
                   builderVars, aggVars, fetchVars>>

\* copy_videos_for_duration has not been called
PrepIdle ==
    /\ ppc = "idle"
    /\ video_todo = <<>>
    /\ copy_success_count = 0
    /\ copy_fail_count = 0
    /\ copied = {}

\* the specifications of the builder and of the analyses run no fetch
NoFetch ==
    /\ remote = <<>>
    /\ FetchIdle

\* the specifications of the builder and of the analyses copy no source videos
NoPrepare ==
    /\ file_mapping = [num \in VideoNumbers |-> {}]
    /\ PrepIdle

\* the builder has not been started and finds no videos
NoBuilderRun ==
    /\ folders = [m \in Models |-> {}]
    /\ rngStream = <<>>
    /\ seeded_outputs = <<>>
    /\ setIdx = 1
    /\ bpc = "main"
    /\ todo = <<>>
    /\ order_sheet_entries = <<>>
    /\ success_count = 0
    /\ fail_count = 0
    /\ total_success = 0
    /\ total_fail = 0
    /\ exit_code = None
    /\ renders = {}
    /\ order_sheet_file = EmptyDict
    /\ written_entries = EmptyDict

\* no aggregator has been constructed, no record collected, no analysis run
NoAnalysis ==
    /\ apc = "none"
    /\ order_sheets = EmptyDict
    /\ lookup = NoLookup
    /\ records = <<>>
    /\ report = NoReport

(* --------------------------- specification ----------------------------- *)

Init ==
    /\ folders \in [Models -> SUBSET Files]
    /\ rngStream = <<>>
    /\ seeded_outputs = <<>>
    /\ setIdx = 1
    /\ bpc = "main"
    /\ todo = <<>>
    /\ order_sheet_entries = <<>>
    /\ success_count = 0
    /\ fail_count = 0
    /\ total_success = 0
    /\ total_fail = 0
    /\ exit_code = None
    /\ renders = {}
    /\ order_sheet_file = EmptyDict
    /\ written_entries = EmptyDict
    /\ apc = "none"
    /\ order_sheets = EmptyDict
    /\ lookup = NoLookup
    /\ records = <<>>
    /\ report = NoReport
    /\ NoFetch
    /\ NoPrepare

Next ==
    \/ StartSet
    \/ RenderVideo
    \/ WriteOrderSheet
    \/ MainReturn
    \/ NewAggregator

Spec == Init /\ [][Next]_vars

\* the builder run any number of times over the same folders
NextRerun ==
    \/ StartSet
    \/ RenderVideo
    \/ WriteOrderSheet
    \/ MainReturn
    \/ Rerun

\* the folders of the repeated runs: the deepsink folder holds every clip, so the
\* common videos of a pair are the clips its baseline folder holds; the first
\* baseline folder holds any of the clips, the last at most the first clip
InitRerun ==
    /\ Init
    /\ folders[DEEPSINK] = Files
    /\ folders[COMPARISON_SETS[Len(COMPARISON_SETS)].model2] \subseteq {<<BaseNames[1], ".mp4">>}

SpecRerun == InitRerun /\ [][NextRerun]_vars

(* An order sheet in the builder's format that is keyed on clip names in any of   *)
(* their forms (as a sheet written by hand or by an earlier builder), and single  *)
(* decode calls against it.                                                       *)

\* number of entry lines of such a sheet
MaxEntries == 2

SheetKeys == UNION {{<<b>>, <<b, ".mp4">>} : b \in Bases}

LookupSet == COMPARISON_SETS[1]

SheetEntries ==
    {order_sheet_entry(k, a, baseline_name_map(LookupSet.model2)) :
        k \in SheetKeys, a \in {<<"deepsink">>, <<"baseline">>}}

EntryLists == UNION {[1..n -> SheetEntries] : n \in 0..MaxEntries}

InitLookup ==
    /\ folders = [m \in Models |-> {}]
    /\ rngStream = <<>>
    /\ seeded_outputs = <<>>
    /\ setIdx = Len(COMPARISON_SETS) + 1
    /\ bpc = "done"
    /\ todo = <<>>
    /\ order_sheet_entries = <<>>
    /\ success_count = 0
    /\ fail_count = 0
    /\ total_success = 0
    /\ total_fail = 0
    /\ exit_code = 0
    /\ renders = {}
    /\ \E entries \in EntryLists :
          /\ written_entries = Put(EmptyDict, LookupSet.name, entries)
          /\ order_sheet_file =
                 Put(EmptyDict, LookupSet.name,
                     order_sheet_lines(LookupSet.name, baseline_name_map(LookupSet.model2),
                                       entries))
    /\ apc = "none"
    /\ order_sheets = EmptyDict
    /\ lookup = NoLookup
    /\ records = <<>>
    /\ report = NoReport
    /\ NoFetch
    /\ NoPrepare

NextLookup ==
    \/ NewAggregator
    \/ DecodeResponse
    \/ DecodeChoice

SpecLookup == InitLookup /\ [][NextLookup]_vars

(* The builder has finished: every comparison set either has no order sheet (its  *)
(* folders had no video in common) or the sheet written for all the videos, each   *)
(* video placed one way or the other (the same way in the sets that have it).      *)
(* Participants' records arrive and one analysis script is run over them.          *)

\* the entries of the sheet of set i when the videos were placed as placement says
placed_entries(i, placement) ==
    LET videos == sorted(Files)
    IN [k \in 1..Len(videos) |->
           order_sheet_entry(videos[k],
                             create_comparison_video(<<COMPARISON_SETS[i].model1, videos[k]>>,
                                                     <<COMPARISON_SETS[i].model2, videos[k]>>,
                                                     <<COMPARISON_SETS[i].name>>,
                                                     placement[videos[k]]).model_a,
                             baseline_name_map(COMPARISON_SETS[i].model2))]

InitAggregate ==
    /\ folders = [m \in Models |-> {}]
    /\ rngStream = <<>>
    /\ seeded_outputs = <<>>
    /\ setIdx = Len(COMPARISON_SETS) + 1
    /\ bpc = "done"
    /\ todo = <<>>
    /\ order_sheet_entries = <<>>
    /\ success_count = 0
    /\ fail_count = 0
    /\ total_success = 0
    /\ total_fail = 0
    /\ exit_code = 0
    /\ renders = {}
    /\ \E present \in SUBSET SetIdx, placement \in [Files -> Orders] :
          /\ written_entries =
                 [name \in {COMPARISON_SETS[i].name : i \in present} |->
                     LET i == CHOOSE j \in SetIdx : COMPARISON_SETS[j].name = name
                     IN placed_entries(i, placement)]
          /\ order_sheet_file =
                 [name \in {COMPARISON_SETS[i].name : i \in present} |->
                     LET i == CHOOSE j \in SetIdx : COMPARISON_SETS[j].name = name
                     IN order_sheet_lines(name, baseline_name_map(COMPARISON_SETS[i].model2),
                                          placed_entries(i, placement))]
    /\ apc = "none"
    /\ order_sheets = EmptyDict
    /\ lookup = NoLookup
    /\ records = <<>>
    /\ report = NoReport
    /\ NoFetch
    /\ NoPrepare

\* the analyses that decode through the order sheets
NextAggregate ==
    \/ SubmitRecord
    \/ RunFileAggregator
    \/ RunGitHubAggregator
    \/ RunFixedAnalysis
    \/ AnalyzeResults
    \/ SaveVisualizations

SpecAggregate == InitAggregate /\ [][NextAggregate]_vars

\* the analyses that read the models off the comparison set's name
NextSplit ==
    \/ SubmitRecord
    \/ RunSimpleAnalysis
    \/ RunCollectorAnalysis
    \/ RunVisualizerAnalysis

SpecSplit == InitAggregate /\ [][NextSplit]_vars

\* the analyses that report a win rate per model
NextRates ==
    \/ SubmitRecord
    \/ RunFileAggregator
    \/ RunGitHubAggregator
    \/ RunCollectorAnalysis

SpecRates == InitAggregate /\ [][NextRates]_vars

\* the listings the remote may hold: any sequence of issues and pull requests
Listings == UNION {[1..n -> BOOLEAN] : n \in 0..MaxIssues}

\* the three fetch functions, each over any listing the remote may hold
InitFetch ==
    /\ NoBuilderRun
    /\ NoAnalysis
    /\ NoPrepare
    /\ remote \in Listings
    /\ FetchIdle

NextFetch ==
    \/ StartFetchGithubIssues
    \/ FetchGithubIssuesPage
    \/ CollectIssues
    \/ StartCollectStudyResults
    \/ CollectStudyResultsPage

SpecFetch == InitFetch /\ [][NextFetch]_vars

\* a page loop that has started goes on: each iteration is a blocking request that
\* returns
SpecFetchLive ==
    SpecFetch /\ WF_vars(FetchGithubIssuesPage) /\ WF_vars(CollectStudyResultsPage)

\* the source files found for a video number: all models, or all but one
SourceSets == {CopyModels} \cup {CopyModels \ {model_name} : model_name \in CopyModels}

\* copy_videos_for_duration over the source files found
InitPrepare ==
    /\ NoBuilderRun
    /\ NoAnalysis
    /\ NoFetch
    /\ file_mapping \in [VideoNumbers -> SourceSets]
    /\ PrepIdle

NextPrepare ==
    \/ StartCopy
    \/ CopyVideo
    \/ CopyReturn

SpecPrepare == InitPrepare /\ [][NextPrepare]_vars

(* ------------------- claims on the builder's sheets --------------------- *)

\* the two models of a comparison set
PairModels(name) ==
    LET cs == COMPARISON_SETS[CHOOSE i \in SetIdx : COMPARISON_SETS[i].name = name]
    IN {cs.model1, baseline_name_map(cs.model2)}

OtherModel(name, m) == CHOOSE x \in PairModels(name) : x # m

\* the label under which an entry records model m
LabelOf(entry, m) ==
    IF entry.model_a = m THEN "A" ELSE IF entry.model_b = m THEN "B" ELSE "none"

\* C1: encode/decode inverse law.  Once the aggregator has parsed the order sheets the
\* builder wrote, decoding, for any written entry and either model m of the pair, the
\* label the builder recorded m under gives chosen = m, other = the pair's other model,
\* status success.
C1_InverseLaw ==
    apc = "ready" =>
        \A name \in DOMAIN written_entries :
            \A i \in 1..Len(written_entries[name]) :
                \A m \in PairModels(name) :
                    LET e == written_entries[name][i]
                        d == decode_response(order_sheets, name, e.filename,
                                             Str(LabelOf(e, m)))
                    IN /\ d.status = "success"
                       /\ d.chosen = m
                       /\ d.other = OtherModel(name, m)

\* a parsed sheet with one entry placed each way
C1_Witness ==
    /\ apc = "ready"
    /\ \E name \in DOMAIN written_entries :
          \E i, j \in 1..Len(written_entries[name]) :
              /\ written_entries[name][i].model_a = DEEPSINK
              /\ written_entries[name][j].model_b = DEEPSINK

\* the names a response may give the video of an entry: as stored, without the
\* suffix, and the name of the rendered comparison video
NameVariants(filename) ==
    LET base == Replace(filename, <<".mp4">>, <<>>)
    IN {filename, base, base \o <<"_comparison", ".mp4">>}

\* C5: for a sheet written by the builder, decode_response succeeds and resolves to
\* the same entry under every variant of the entry's file name.
C5_VariantsResolve ==
    apc = "ready" =>
        \A name \in DOMAIN written_entries :
            \A i \in 1..Len(written_entries[name]) :
                \A v \in NameVariants(written_entries[name][i].filename) :
                    \A c \in {"A", "B"} :
                        LET e == written_entries[name][i]
                            d == decode_response(order_sheets, name, v, Str(c))
                        IN /\ d.status = "success"
                           /\ d = decode_response(order_sheets, name, e.filename, Str(c))

(* ---------------------- claims on single decodes ------------------------ *)

\* the entry a sheet written from entries holds for key k: its last line with that key
LastEntry(entries, k) ==
    entries[CHOOSE i \in 1..Len(entries) :
                /\ entries[i].filename = k
                /\ \A j \in (i + 1)..Len(entries) : entries[j].filename # k]

HasEntry(entries, k) == \E i \in 1..Len(entries) : entries[i].filename = k

\* a decode call for a suffix-less name ("v1") that is a key of the set's order sheet
PlainKeyLookup ==
    /\ lookup.tool \in {"decode_response", "decode_choice"}
    /\ lookup.comparison_name \in DOMAIN written_entries
    /\ Len(lookup.video_filename) = 1
    /\ HasEntry(written_entries[lookup.comparison_name], lookup.video_filename)

\* C2: with the sheet line "v1: Model A = foo, Model B = bar", decoding 'A' for "v1"
\* gives (chosen foo, other bar), 'B' gives (chosen bar, other foo), and any other
\* choice gives neither a chosen nor an other model (status "Invalid choice" from
\* decode_response); this holds for decode_response and for decode_choice.
C2_DecodeScenario ==
    PlainKeyLookup =>
        LET e == LastEntry(written_entries[lookup.comparison_name], lookup.video_filename)
            r == lookup.result
        IN /\ lookup.choice = Str("A") => r.chosen = e.model_a /\ r.other = e.model_b
           /\ lookup.choice = Str("B") => r.chosen = e.model_b /\ r.other = e.model_a
           /\ lookup.choice \notin {Str("A"), Str("B")} =>
                 /\ r.chosen = None /\ r.other = None
                 /\ lookup.tool = "decode_response" => r.status = "Invalid choice"
           /\ lookup.tool = "decode_response" /\ lookup.choice \in {Str("A"), Str("B")} =>
                 r.status = "success"

\* decode_choice has decoded 'C' for a plain key of a sheet that also holds the key
\* with its suffix
C2_Witness ==
    /\ PlainKeyLookup
    /\ lookup.tool = "decode_choice"
    /\ lookup.choice = Str("C")
    /\ HasEntry(written_entries[lookup.comparison_name], lookup.video_filename \o <<".mp4">>)

\* C4: filename normalization.  When the parsed sheet is keyed on the suffix-less
\* name b ("clip_01"), decode_response resolves "b.mp4", "b" and "b_comparison.mp4"
\* to that entry: for each choice the three calls return the same result, which is
\* the one read off the entry keyed b.
C4_FilenameNormalization ==
    apc = "ready" =>
        \A name \in DOMAIN order_sheets :
            \A b \in Bases :
                <<b>> \in DOMAIN order_sheets[name] =>
                    \A v \in {<<b, ".mp4">>, <<b>>, <<b, "_comparison", ".mp4">>} :
                        LET e == order_sheets[name][<<b>>]
                        IN /\ decode_response(order_sheets, name, v, Str("A"))
                                = [chosen |-> e.model_a, other |-> e.model_b,
                                   status |-> "success"]
                           /\ decode_response(order_sheets, name, v, Str("B"))
                                = [chosen |-> e.model_b, other |-> e.model_a,
                                   status |-> "success"]
                           /\ ( /\ lookup.tool = "decode_response"
                                /\ lookup.comparison_name = name
                                /\ lookup.video_filename = v
                                /\ lookup.choice = Str("A") )
                              => lookup.result.chosen = e.model_a

\* decode_response has resolved "b_comparison.mp4" against a sheet keyed on b that
\* also has an entry "b.mp4" placed the other way
C4_Witness ==
    /\ lookup.tool = "decode_response"
    /\ lookup.result.status = "success"
    /\ \E b \in Bases :
          /\ lookup.video_filename = <<b, "_comparison", ".mp4">>
          /\ <<b>> \in DOMAIN order_sheets[lookup.comparison_name]
          /\ <<b, ".mp4">> \in DOMAIN order_sheets[lookup.comparison_name]
          /\ order_sheets[lookup.comparison_name][<<b>>]
                # order_sheets[lookup.comparison_name][<<b, ".mp4">>]

(* ------------------- claims on the analysis runs ------------------------ *)

\* the clip a video name is about: the name without its suffixes
Identity(video) == video[1]

\* the pair's order sheet holds an entry for the clip of the video
IdentityOnSheet(pair, video) ==
    /\ pair \in DOMAIN written_entries
    /\ \E i \in 1..Len(written_entries[pair]) :
          Identity(written_entries[pair][i].filename) = Identity(video)

\* the model the pair's order sheet assigns to label c for the clip of the video
SheetModel(pair, video, c) ==
    LET e == written_entries[pair][CHOOSE i \in 1..Len(written_entries[pair]) :
                 Identity(written_entries[pair][i].filename) = Identity(video)]
    IN IF c = "A" THEN e.model_a ELSE e.model_b

\* the pair has an order sheet and the sheet has no entry for the clip of the video
AbsentIdentity(pair, video) ==
    pair \in DOMAIN written_entries /\ ~IdentityOnSheet(pair, video)

SplitTools == {"collect_simple", "collect_github_results", "collect_with_visualization"}

\* the wins the order sheets give model m for a question, over the collected records
SheetWins(question, m) ==
    LET items == AllItems(records)
    IN Cardinality({i \in 1..Len(items) :
                       /\ simple_choice(items[i].data, question) \in {"A", "B"}
                       /\ SheetModel(items[i].comparison, items[i].video,
                                     simple_choice(items[i].data, question)) = m})

\* C3: every aggregation pipeline credits, for a choice 'A' (resp. 'B') on a pair and
\* clip, the model the pair's order sheet assigns to label A (resp. B) for that clip,
\* never the left (resp. right) name of the pair: the decisions the collector and the
\* visualizer record name the sheet's model, and the wins collect_simple counts are
\* the wins the sheets give.
C3_DecodeThroughSheet ==
    /\ report.tool = "collect_github_results" =>
          \A i \in 1..Len(report.analysis.comparison_data) :
              LET d == report.analysis.comparison_data[i]
              IN IdentityOnSheet(d.comparison_set, d.video_id) =>
                     d.chosen_model = SheetModel(d.comparison_set, d.video_id, d.choice)
    /\ report.tool = "collect_with_visualization" =>
          \A question \in DOMAIN report.analysis.question_analyses :
              \A i \in 1..Len(report.analysis.question_analyses[question].participant_choices) :
                  LET d == report.analysis.question_analyses[question].participant_choices[i]
                  IN IdentityOnSheet(d.comparison_set, d.video_id) =>
                         d.chosen_model = SheetModel(d.comparison_set, d.video_id, d.choice)
    /\ ( /\ report.tool = "collect_simple"
         /\ report.analysis.analysed
         /\ \A i \in 1..Len(AllItems(records)) :
               IdentityOnSheet(AllItems(records)[i].comparison, AllItems(records)[i].video) )
       => \A question \in DOMAIN report.analysis.questions :
              \A m \in Models :
                  Get0(report.analysis.questions[question].model_wins, m)
                      = SheetWins(question, m)

\* the records without the responses about a clip that is absent from a present sheet
WithoutAbsent(recs) ==
    [r \in 1..Len(recs) |->
        [participantId |-> recs[r].participantId,
         responses |-> SelectSeq(recs[r].responses,
                                 LAMBDA x : ~AbsentIdentity(x.comparison, x.video))]]

HasAbsent(recs) ==
    \E i \in 1..Len(AllItems(recs)) :
        AbsentIdentity(AllItems(recs)[i].comparison, AllItems(recs)[i].video)

\* C6: a choice for a clip that is absent from a present order sheet decodes to a
\* not-found outcome (no models, status "not found in order sheet"), and the wins and
\* totals of every model are what they are without that response: in the report of
\* aggregate_results.py and, for each question, in the counts of
\* analyze_results_with_order_sheets.
C6_AbsentIdentityExcluded ==
    /\ report.tool = "aggregate_results" =>
          /\ \A i \in 1..Len(report.responses) :
                LET row == report.responses[i]
                IN AbsentIdentity(row.comparison_name, row.video_filename) =>
                      /\ row.decode_status = "not found in order sheet"
                      /\ row.chosen_method = None
                      /\ row.other_method = None
          /\ LET kept == aggregate_results(
                             process_results_directory(order_sheets, WithoutAbsent(records)))
             IN IF report.results.empty THEN kept.empty
                ELSE /\ ~kept.empty
                     /\ report.results.method_preferences = kept.method_preferences
                     /\ report.results.comparison_results = kept.comparison_results
    /\ (report.tool = "collect_simple_fixed" /\ report.analysis.analysed) =>
          LET kept == analyze_results_with_order_sheets(
                          WithoutAbsent(records), fixed_load_order_sheets(order_sheet_file))
          IN \A question \in DOMAIN report.analysis.questions :
                /\ report.analysis.questions[question].model_wins
                       = kept.questions[question].model_wins
                /\ report.analysis.questions[question].model_total
                       = kept.questions[question].model_total

\* aggregate_results.py has reported wins over records that hold a choice for a clip
\* absent from a present sheet
C6_Witness ==
    /\ report.tool = "aggregate_results"
    /\ ~report.results.empty
    /\ HasAbsent(records)
    /\ \E i \in 1..Len(report.responses) :
          report.responses[i].decode_status = "not found in order sheet"

\* the rows of a kind among the rows aggregate_results was given
Undecodable(rows) ==
    Len(SelectSeq(rows, LAMBDA r : r.decode_status \in {"No order sheet found",
                                                  "not found in order sheet"}))

InvalidChoices(rows) == Len(SelectSeq(rows, LAMBDA r : r.decode_status = "Invalid choice"))

\* C7: the decoders' outcome for an undecodable choice (no order sheet for the pair, or
\* no entry for the clip) differs from their outcome for an invalid choice (not 'A' or
\* 'B'), and the two kinds are tallied in different counters: the failure count of
\* the summary holds the choices of one kind only.
C7_DistinctFailureKinds ==
    /\ \A pair \in PairNames, with_sheet \in DOMAIN written_entries :
          \A missing \in RequestNames, i \in 1..Len(written_entries[with_sheet]) :
              LET sheets == load_order_sheets(order_sheet_file)
                  fixed_sheets == fixed_load_order_sheets(order_sheet_file)
                  held == written_entries[with_sheet][i].filename
              IN ~IdentityOnSheet(pair, missing) =>
                    /\ decode_response(sheets, pair, missing, Str("A"))
                          # decode_response(sheets, with_sheet, held, Str("C"))
                    /\ decode_choice(pair, missing, Str("A"), fixed_sheets)
                          # decode_choice(with_sheet, held, Str("C"), fixed_sheets)
    /\ (report.tool = "aggregate_results" /\ ~report.results.empty) =>
          \/ report.results.summary.failed_decodes = Undecodable(report.responses)
          \/ report.results.summary.failed_decodes = InvalidChoices(report.responses)

\* a response holds a raw choice that is neither 'A' nor 'B'
HasInvalidRaw(data) ==
    IF IsStr(data) THEN data.s \notin {"A", "B"}
    ELSE IF HasKey(data, "answers")
    THEN \E i \in 1..Len(data.answers) : data.answers[i][2] \notin {"A", "B"}
    ELSE IF HasKey(data, "choice") THEN data.choice \notin {"A", "B"}
    ELSE FALSE

\* the responses of the records with such a choice
InvalidRaw(recs) == Len(SelectSeq(AllItems(recs), LAMBDA x : HasInvalidRaw(x.data)))

\* the failure count a run's summary shows, -1 when the run shows none (no summary
\* is produced, or what the analysis returns holds wins and totals only)
FailureCount(rep) ==
    IF rep.tool \in {"aggregate_results", "aggregate_results_from_github"}
    THEN IF rep.results.empty THEN -1 ELSE rep.results.summary.failed_decodes
    ELSE IF rep.tool = "collect_simple_fixed"
    THEN IF rep.analysis.analysed
         THEN rep.analysis.questions["overall_quality"].decode_errors
         ELSE -1
    ELSE -1

\* C8: a response whose raw choice is not 'A' or 'B' credits no model and is counted
\* in a failure count of the run's summary: the rows that credit a model hold the
\* choice 'A' or 'B', and the failure count of the summary is at least the number of
\* responses with such a choice.
C8_InvalidChoicesCounted ==
    report.tool \in {"aggregate_results", "aggregate_results_from_github",
                     "collect_simple_fixed"} =>
        /\ (report.tool = "aggregate_results" /\ ~report.results.empty) =>
              \A i \in 1..Len(report.results.detailed_results) :
                  report.results.detailed_results[i].choice \in {Str("A"), Str("B")}
        /\ (report.tool = "aggregate_results_from_github" /\ ~report.results.empty) =>
              \A i \in 1..Len(report.results.detailed_results) :
                  report.results.detailed_results[i].choice \in {"A", "B"}
        /\ InvalidRaw(records) > 0 => FailureCount(report) >= InvalidRaw(records)

\* the responses of the records for a pair that has no order sheet
NoSheetChoices(recs) ==
    Len(SelectSeq(AllItems(recs), LAMBDA x : x.comparison \notin DOMAIN order_sheet_file))

\* C9: when a pair named in the records has no order sheet, the run's summary shows a
\* failure count that holds the choices for that pair, also when no response at all
\* can be decoded: in aggregate_results.py, in aggregate_results_from_github.py and in
\* visualize_user_study's analyze_results.
C9_MissingSheetSurfaced ==
    (report.tool \in {"aggregate_results", "aggregate_results_from_github", "analyze_results"}
        /\ NoSheetChoices(records) > 0)
    => FailureCount(report) >= NoSheetChoices(records)

\* the left and the right model of a pair
PairLeft(pair) == COMPARISON_SETS[CHOOSE i \in SetIdx : COMPARISON_SETS[i].name = pair].model1
PairRight(pair) ==
    baseline_name_map(COMPARISON_SETS[CHOOSE i \in SetIdx : COMPARISON_SETS[i].name = pair].model2)

\* every response of the records is for the pair
OnlyPair(pair) ==
    \A i \in 1..Len(AllItems(records)) : AllItems(records)[i].comparison = pair

\* C10: symmetry.  When all the choices aggregated belong to one comparison pair, the
\* total of the pair's left model equals the total of its right model, for every
\* question, in analyze_results_with_order_sheets and in visualize_user_study's
\* analyze_results.
C10_Symmetry ==
    \A pair \in PairNames :
        OnlyPair(pair) =>
            /\ (report.tool = "collect_simple_fixed" /\ report.analysis.analysed) =>
                  \A question \in DOMAIN report.analysis.questions :
                      Get0(report.analysis.questions[question].model_total, PairLeft(pair))
                        = Get0(report.analysis.questions[question].model_total, PairRight(pair))
            /\ (report.tool \in {"analyze_results", "visualize_user_study"}
                   /\ ~report.analysis.raised) =>
                  \A question \in DOMAIN report.analysis.model_total :
                      Get0(report.analysis.model_total[question], PairLeft(pair))
                        = Get0(report.analysis.model_total[question], PairRight(pair))

\* analyze_results_with_order_sheets has counted two decoded choices of one pair,
\* both won by the same model
C10_Witness ==
    /\ report.tool = "collect_simple_fixed"
    /\ report.analysis.analysed
    /\ \E pair \in PairNames :
          /\ OnlyPair(pair)
          /\ \E m \in PairModels(pair) :
                /\ Get0(report.analysis.questions["overall_quality"].model_wins, m) = 2
                /\ Get0(report.analysis.questions["overall_quality"].model_total,
                        OtherModel(pair, m)) = 2

(* ------------------- claims on the reported statistics ------------------ *)

\* C11: the per-model statistics of aggregate_results follow the bookkeeping
\* wins[chosen] += 1, total[chosen] += 1, total[other] += 1 over the decoded rows:
\* every model that was chosen or other in a decoded row has an entry in
\* method_preferences, its wins is the number of rows it won and its total is the
\* number of rows it appeared in.
C11_MethodStatistics ==
    (report.tool = "aggregate_results" /\ ~report.results.empty) =>
        LET rows == report.results.detailed_results
            appeared == {rows[i].chosen_method : i \in 1..Len(rows)}
                            \cup {rows[i].other_method : i \in 1..Len(rows)}
        IN \A m \in appeared :
              /\ m \in DOMAIN report.results.method_preferences
              /\ report.results.method_preferences[m].wins
                    = Len(SelectSeq(rows, LAMBDA r : r.chosen_method = m))
              /\ report.results.method_preferences[m].total_comparisons
                    = Len(SelectSeq(rows, LAMBDA r : r.chosen_method = m \/ r.other_method = m))

\* a reported win rate is wins / total within [0, 1], and 0 when total is 0
RateOk(rate, wins, total) ==
    /\ 0 <= wins /\ wins <= total
    /\ rate.den > 0
    /\ 0 <= rate.num /\ rate.num <= rate.den
    /\ total = 0 => rate.num = 0
    /\ total > 0 => rate.num * total = wins * rate.den

\* C12: win-rate bounds.  For every model of method_preferences, for both methods of
\* every per-pair result and for every model of the collector's model_comparisons,
\* 0 <= wins <= total and the win rate is wins / total in [0, 1]; the rate computed
\* for a total of 0 is 0, without a division.
C12_WinRateBounds ==
    /\ \A total \in 0..MaxRecords : \A wins \in 0..total :
          RateOk(Rate(wins, total), wins, total)
    /\ (report.tool \in {"aggregate_results", "aggregate_results_from_github"}
           /\ ~report.results.empty) =>
          /\ \A m \in DOMAIN report.results.method_preferences :
                LET st == report.results.method_preferences[m]
                IN RateOk(st.win_rate, st.wins, st.total_comparisons)
          /\ \A name \in DOMAIN report.results.comparison_results :
                LET cr == report.results.comparison_results[name]
                IN /\ RateOk(cr.method_a_win_rate, cr.method_a_wins, cr.total_comparisons)
                   /\ RateOk(cr.method_b_win_rate, cr.method_b_wins, cr.total_comparisons)
    /\ report.tool = "collect_github_results" =>
          \A m \in DOMAIN report.analysis.model_comparisons :
              LET st == report.analysis.model_comparisons[m]
              IN RateOk(st.win_rate, st.wins, st.total)

\* aggregate_results has reported a model that won one of two decoded choices, and
\* the collector a model that won none of its comparisons
C12_Witness ==
    \/ /\ report.tool = "aggregate_results"
       /\ ~report.results.empty
       /\ \E m \in DOMAIN report.results.method_preferences :
             report.results.method_preferences[m].win_rate = [num |-> 1, den |-> 2]
       /\ \E name \in DOMAIN report.results.comparison_results :
             report.results.comparison_results[name].method_b_wins = 0
    \/ /\ report.tool = "collect_github_results"
       /\ \E m \in DOMAIN report.analysis.model_comparisons :
             /\ report.analysis.model_comparisons[m].wins = 0
             /\ report.analysis.model_comparisons[m].total = 2

\* the wins a report of aggregate_results shows for a model
ReportedWins(results, m) ==
    IF m \in DOMAIN results.method_preferences THEN results.method_preferences[m].wins ELSE 0

\* C13: with answers to several questions, the report of the GitHub aggregator holds
\* the per-model counts of each question apart: for every question answered, the wins
\* the report shows for a model are the decoded choices of that question the model
\* won, a choice for another question changing none of them.
C13_QuestionsSeparate ==
    (report.tool = "aggregate_results_from_github" /\ ~report.results.empty) =>
        LET rows == report.results.detailed_results
        IN \A question \in {rows[i].question_name : i \in 1..Len(rows)} :
              \A m \in Models :
                  ReportedWins(report.results, m)
                      = Len(SelectSeq(rows, LAMBDA r : r.question_name = question
                                                        /\ r.chosen_method = m))

\* a participant's response about a video, as the loops of the aggregators see it
ItemOf(pair, video, data) ==
    [participant_id |-> "p1", comparison |-> pair, video |-> video, data |-> data]

\* the (chosen, other) models of a decoded row
RowModels(row) == <<row.chosen_method, row.other_method>>

\* C14: both response shapes decode through the same path.  For every entry of a
\* loaded order sheet and c in {'A','B'}, the legacy response c and a structured
\* response whose answers map a question to c give the same (chosen, other) models, in
\* process_single_result_file and in process_user_responses.
C14_ShapesDecodeAlike ==
    apc = "ready" =>
        \A pair \in DOMAIN written_entries :
            \A i \in 1..Len(written_entries[pair]) :
                \A c \in {"A", "B"} :
                    LET video == written_entries[pair][i].filename
                        legacy == ItemOf(pair, video, Str(c))
                        structured == ItemOf(pair, video,
                                             Answers(<< <<"overall_quality", c>> >>))
                    IN /\ RowModels(file_row(order_sheets, legacy))
                            = RowModels(file_row(order_sheets, structured))
                       /\ Len(github_item_rows(order_sheets, legacy)) = 1
                       /\ Len(github_item_rows(order_sheets, structured)) = 1
                       /\ RowModels(github_item_rows(order_sheets, legacy)[1])
                            = RowModels(github_item_rows(order_sheets, structured)[1])

(* ------------------- claims on the builder's runs ----------------------- *)

\* the videos create_comparison_set finds in both folders of a comparison set
CommonVideos(cs) == mp4_videos(folders[cs.model1]) \cap mp4_videos(folders[cs.model2])

\* the common videos the loop of the current set has gone through
Processed == {v \in CommonVideos(CurSet) : \A i \in 1..Len(todo) : todo[i] # v}

\* the processed videos whose render failed: they have no comparison video
FailedVideos ==
    {v \in Processed :
        ~ \E r \in renders :
            r.output = <<CurSet.name, Replace(v, <<".mp4">>, <<>>) \o <<"_comparison", ".mp4">>>>}

\* C15: create_comparison_set goes through every common video whatever renders fail.
\* While the loop runs, the successes, the failures and the videos still to do add up
\* to the number of common videos, fail_count is the number of videos whose render
\* failed and success_count the number of entries; when the loop has ended,
\* success_count + fail_count is the number of common videos.
C15_EveryVideoProcessed ==
    bpc = "loop" =>
        /\ success_count + fail_count + Len(todo) = Cardinality(CommonVideos(CurSet))
        /\ fail_count = Cardinality(FailedVideos)
        /\ success_count = Len(order_sheet_entries)
        /\ success_count = Cardinality(Processed \ FailedVideos)
        /\ todo = <<>> => success_count + fail_count = Cardinality(CommonVideos(CurSet))

\* a loop that has ended after a failed render followed by a successful one
C15_Witness ==
    /\ bpc = "loop"
    /\ todo = <<>>
    /\ fail_count = 1
    /\ success_count = 1
    /\ order_sheet_entries[1].filename = <<BaseNames[2], ".mp4">>

\* the comparison set of a comparison name
SetOf(name) == COMPARISON_SETS[CHOOSE i \in SetIdx : COMPARISON_SETS[i].name = name]

\* the comparison video of a video of a comparison set has been rendered
Rendered(name, video) ==
    \E r \in renders :
        r.output = <<name, Replace(video, <<".mp4">>, <<>>) \o <<"_comparison", ".mp4">>>>

\* the lines of a sheet file that are the entry of a video
EntryLinesOf(lines, video) == SelectSeq(lines, LAMBDA l : StartsWith(l, video \o <<":">>))

\* the entry lines that give a video the two models of its pair, one way or the other
PairEntryLines(name, video) ==
    {entry_line([filename |-> video, model_a |-> m, model_b |-> OtherModel(name, m)]) :
        m \in PairModels(name)}

\* C16: an order sheet file holds exactly one entry for every video whose comparison
\* video was rendered and none for a video whose render failed or that is not common
\* to the two folders, and an entry's Model A and Model B are the two models of the
\* pair, deepsink and the baseline.
C16_SheetMatchesRenders ==
    \A name \in DOMAIN order_sheet_file :
        /\ \A video \in Files :
              LET found == EntryLinesOf(order_sheet_file[name], video)
              IN IF Rendered(name, video)
                 THEN Len(found) = 1 /\ found[1] \in PairEntryLines(name, video)
                 ELSE Len(found) = 0
        /\ Len(order_sheet_file[name]) =
              Len(order_sheet_lines(name, baseline_name_map(SetOf(name).model2), <<>>))
                  + Cardinality({video \in Files : Rendered(name, video)})

\* a sheet written after one render succeeded and one failed
C16_Witness ==
    \E name \in DOMAIN order_sheet_file :
        /\ Cardinality(CommonVideos(SetOf(name))) = 2
        /\ Cardinality({video \in Files : Rendered(name, video)}) = 1
        /\ Len(EntryLinesOf(order_sheet_file[name], <<BaseNames[2], ".mp4">>)) = 1

\* C17: the entry of a comparison video is in the order sheet file from the render
\* on: at every point of a run, every video whose comparison video has been rendered
\* has its entry in the order sheet file of its comparison set.
C17_EntryOnDiskAtRender ==
    \A name \in PairNames :
        \A video \in Files :
            Rendered(name, video) =>
                /\ name \in DOMAIN order_sheet_file
                /\ Len(EntryLinesOf(order_sheet_file[name], video)) = 1

\* the entry of a video on the sheet a comparison set was last written from, None
\* where the sheet has none
EntryOf(entries, name, video) ==
    IF name \in DOMAIN entries /\ \E i \in 1..Len(entries[name]) : entries[name][i].filename = video
    THEN LET i == CHOOSE i \in 1..Len(entries[name]) : entries[name][i].filename = video
         IN <<entries[name][i].model_a, entries[name][i].model_b>>
    ELSE None

\* C18: reproducibility.  The generator is seeded once per run with the fixed seed, so
\* a run over the same folders draws the placements an earlier run drew: whenever a
\* run rewrites an order sheet, every (pair, video) that has an entry before and
\* after keeps its Model A / Model B assignment, and the draws of a run repeat, in
\* order, the draws of the earlier run.
C18_Reproducible ==
    [][ /\ \A name \in PairNames :
              \A video \in Files :
                  (EntryOf(written_entries, name, video) # None
                       /\ EntryOf(written_entries', name, video) # None)
                    => EntryOf(written_entries', name, video) = EntryOf(written_entries, name, video)
        /\ \A i \in 1..Len(rngStream') : rngStream'[i] = seeded_outputs'[i]
      ]_vars

\* a second run has rewritten a sheet that held an entry, with an entry in it
C18_Witness ==
    /\ Len(rngStream) < Len(seeded_outputs)
    /\ bpc = "main"
    /\ setIdx = 2
    /\ COMPARISON_SETS[1].name \in DOMAIN written_entries
    /\ written_entries[COMPARISON_SETS[1].name] # <<>>
    /\ Len(rngStream) = Cardinality(CommonVideos(COMPARISON_SETS[1]))

(* ------------------- claims on repeated records ------------------------- *)

\* the wins and totals of an aggregate_results report
MethodStatistics(results) ==
    IF results.empty THEN EmptyResults
    ELSE [empty |-> FALSE,
          method_preferences |-> results.method_preferences,
          comparison_results |-> results.comparison_results]

\* the wins and totals analyze_results_with_order_sheets keeps for each question
FixedStatistics(analysis) ==
    IF ~analysis.analysed THEN analysis
    ELSE [analysed |-> TRUE,
          questions |-> [q \in DOMAIN analysis.questions |->
                            [model_wins |-> analysis.questions[q].model_wins,
                             model_total |-> analysis.questions[q].model_total]]]

\* C19: the aggregator is idempotent under duplicate records.  When the records
\* aggregated are one participant's record occurring twice, the wins and totals of
\* every model are those of aggregating the record once, in
\* aggregate_results_from_github, in aggregate_results and in
\* analyze_results_with_order_sheets.
C19_DuplicateIdempotent ==
    (Len(records) = 2 /\ records[1] = records[2]) =>
        LET once == <<records[1]>>
        IN /\ report.tool = "aggregate_results_from_github" =>
                 LET all_responses == process_github_issues(order_sheets, once)
                 IN MethodStatistics(report.results) =
                        MethodStatistics(IF all_responses = <<>> THEN EmptyResults
                                         ELSE aggregate_results(all_responses))
           /\ report.tool = "aggregate_results" =>
                 LET responses == process_results_directory(order_sheets, once)
                 IN MethodStatistics(report.results) =
                        MethodStatistics(IF responses = <<>> THEN EmptyResults
                                         ELSE aggregate_results(responses))
           /\ (report.tool = "collect_simple_fixed" /\ report.loaded) =>
                 FixedStatistics(report.analysis) =
                     FixedStatistics(analyze_results_with_order_sheets(
                                         once, fixed_load_order_sheets(order_sheet_file)))

\* the videos that exist in only one of the two folders of a comparison set
OnlyInOneFolder(cs) ==
    (mp4_videos(folders[cs.model1]) \cup mp4_videos(folders[cs.model2])) \ CommonVideos(cs)

\* C20: PartialOverlap.  A video that exists in only one of the two folders of a pair
\* is skipped and counted: when the loop of create_comparison_set has ended, the
\* tallies it returns account for every video of the pair, the skipped ones included.
C20_SkipsCounted ==
    (bpc = "loop" /\ todo = <<>>) =>
        success_count + fail_count
            = Cardinality(CommonVideos(CurSet)) + Cardinality(OnlyInOneFolder(CurSet))

(* ------------------- claims on the remote fetch ------------------------- *)

\* C21: a page request that comes back with an error status or with a body that is
\* not JSON is treated as zero results retrieved and is never fatal: no fetch
\* function raises, whatever the remote answers.
C21_FetchNeverFatal ==
    fpc # "raised"

\* the labelled issues of the remote that are not pull requests
RemoteIssues(listing) ==
    without_pull_requests([i \in 1..Len(listing) |-> RemoteItem(listing, i)])

\* C26: fetch_github_issues fetches all response records.  When it has returned and
\* every request was answered with status 200, the returned list holds every issue
\* of the remote that is not a pull request, whatever pages the issues lie on.
C26_FetchesAllIssues ==
    (fetch_tool = "fetch_github_issues" /\ fpc = "returned" /\ ~fetch_failed) =>
        all_issues = RemoteIssues(remote)

\* C27: the page loops of fetch_github_issues and collect_study_results terminate
\* over any finite listing.  Each iteration requests the page after the one before;
\* the loop goes on only past a page that holds issues (in fetch_github_issues: a
\* page that holds per_page issues that are not pull requests); and a loop that has
\* started comes to its end.
C27_PageLoopsTerminate ==
    /\ [][ fpc = "loop" =>
              /\ page' = page \/ page' = page + 1
              /\ fpc' = "loop" =>
                    /\ page' = page + 1
                    /\ page_of(remote, page, PerPage) # <<>>
                    /\ fetch_tool = "fetch_github_issues" =>
                          Len(without_pull_requests(page_of(remote, page, PerPage))) = PerPage
         ]_vars
    /\ (fpc = "loop") ~> (fpc \in {"returned", "raised"})

\* collect_study_results has read two pages and returned at the empty third page
C27_Witness ==
    /\ fetch_tool = "collect_study_results"
    /\ fpc = "returned"
    /\ ~fetch_failed
    /\ page = 3
    /\ Len(all_issues) = 3

(* ------------------- claims on the copied source videos ----------------- *)

\* the video numbers copy_videos_for_duration has gone through
ProcessedNumbers == {num \in VideoNumbers : \A i \in 1..Len(video_todo) : video_todo[i] # num}

\* the processed numbers every model's file was copied for
FullyCopied ==
    {num \in ProcessedNumbers :
        \A model_name \in CopyModels : <<MODEL_MAPPING(model_name), num>> \in copied}

\* C29: copy_videos_for_duration counts every requested video number exactly once, as
\* a success or as a failure: on return success_count + fail_count is the number of
\* requested video numbers, and success_count counts only numbers for which the file
\* of every model was copied.
C29_EveryNumberCountedOnce ==
    ppc = "returned" =>
        /\ copy_success_count + copy_fail_count = Len(VIDEO_NUMBERS_30S)
        /\ copy_success_count = Cardinality(FullyCopied)

(* ------------------- claims on merging the counters --------------------- *)

\* the models two counters of analyze_results_with_order_sheets know
CountedModels(a, b) ==
    DOMAIN a.model_wins \cup DOMAIN a.model_total \cup DOMAIN b.model_wins \cup DOMAIN b.model_total

\* two analyses hold the same wins and totals for every question and model
SameCounts(a, b) ==
    /\ a.analysed /\ b.analysed
    /\ \A q \in DOMAIN a.questions :
          \A m \in CountedModels(a.questions[q], b.questions[q]) :
              /\ Get0(a.questions[q].model_wins, m) = Get0(b.questions[q].model_wins, m)
              /\ Get0(a.questions[q].model_total, m) = Get0(b.questions[q].model_total, m)

\* the wins and totals of an analysis are the element-wise sums of those of two others
SumOfCounts(whole, a, b) ==
    /\ whole.analysed /\ a.analysed /\ b.analysed
    /\ \A q \in DOMAIN whole.questions :
          \A m \in CountedModels(whole.questions[q], a.questions[q])
                      \cup CountedModels(whole.questions[q], b.questions[q]) :
              /\ Get0(whole.questions[q].model_wins, m)
                    = Get0(a.questions[q].model_wins, m) + Get0(b.questions[q].model_wins, m)
              /\ Get0(whole.questions[q].model_total, m)
                    = Get0(a.questions[q].model_total, m) + Get0(b.questions[q].model_total, m)

\* C22: the counters of analyze_results_with_order_sheets are associative and
\* commutative.  For two or more records, the per-question wins and totals reported
\* are the same when the records are processed in the reverse order, and for every
\* cut of the records into two batches they are the element-wise sums of the counts
\* of each batch analysed alone.
C22_CountersMerge ==
    (report.tool = "collect_simple_fixed" /\ report.loaded /\ Len(records) >= 2) =>
        LET sheets == fixed_load_order_sheets(order_sheet_file)
            n == Len(records)
            reversed == [i \in 1..n |-> records[n + 1 - i]]
        IN /\ SameCounts(report.analysis, analyze_results_with_order_sheets(reversed, sheets))
           /\ \A k \in 1..(n - 1) :
                 SumOfCounts(report.analysis,
                             analyze_results_with_order_sheets(SubSeq(records, 1, k), sheets),
                             analyze_results_with_order_sheets(SubSeq(records, k + 1, n), sheets))

\* two different records that both decode, deepsink chosen in each
C22_Witness ==
    /\ report.tool = "collect_simple_fixed"
    /\ report.loaded
    /\ Len(records) = 2
    /\ records[1] # records[2]
    /\ Get0(report.analysis.questions["overall_quality"].model_wins, DEEPSINK) = 2
    /\ Get0(report.analysis.questions["overall_quality"].model_total, DEEPSINK) = 2

(* ------------------- claims on the order of the lookup keys ------------- *)

\* C23: decode_response tries the exact requested name first.  When the order sheet
\* of the pair holds an entry under the exact name requested, a choice 'A' decodes
\* to that entry's Model A and a choice 'B' to its Model B, also when the sheet holds
\* another entry under the name without its suffix.
C23_ExactKeyFirst ==
    (/\ lookup.tool = "decode_response"
     /\ lookup.comparison_name \in DOMAIN order_sheets
     /\ lookup.video_filename \in DOMAIN order_sheets[lookup.comparison_name]
     /\ lookup.choice \in {Str("A"), Str("B")}) =>
        LET exact == order_sheets[lookup.comparison_name][lookup.video_filename]
        IN /\ lookup.result.status = "success"
           /\ lookup.result.chosen = IF lookup.choice = Str("A") THEN exact.model_a
                                     ELSE exact.model_b
           /\ lookup.result.other = IF lookup.choice = Str("A") THEN exact.model_b
                                    ELSE exact.model_a

(* ------------------- claims on the recorded placement ------------------- *)

\* the model whose videos a folder of a comparison set holds
FolderModel(cs, folder) == IF folder = cs.model1 THEN DEEPSINK ELSE baseline_name_map(folder)

\* an entry records the placement of the render of its video: Model A is the model
\* of the left input, Model B the model of the right input, both inputs its clip
RecordsPlacement(cs, entry) ==
    \E r \in renders :
        /\ r.output = <<cs.name, Replace(entry.filename, <<".mp4">>, <<>>) \o <<"_comparison", ".mp4">>>>
        /\ r.left_video[2] = entry.filename
        /\ r.right_video[2] = entry.filename
        /\ entry.model_a = FolderModel(cs, r.left_video[1])
        /\ entry.model_b = FolderModel(cs, r.right_video[1])
        /\ r.left_video[1] # r.right_video[1]

\* C24: in every order-sheet entry the builder makes, Model A is the model whose
\* video was the left input of the render of that video and Model B the model
\* rendered on the right, for the placement 'left' and for the placement 'right':
\* in the entries of the running loop and in the entries of every sheet written.
C24_ModelAIsLeft ==
    /\ bpc = "loop" =>
          \A i \in 1..Len(order_sheet_entries) : RecordsPlacement(CurSet, order_sheet_entries[i])
    /\ \A name \in DOMAIN written_entries :
          /\ \A i \in 1..Len(written_entries[name]) :
                RecordsPlacement(SetOf(name), written_entries[name][i])
          /\ order_sheet_file[name] =
                order_sheet_lines(name, baseline_name_map(SetOf(name).model2), written_entries[name])

\* a finished run with a written sheet that holds an entry of each placement
C24_Witness ==
    /\ bpc = "done"
    /\ \E name \in DOMAIN written_entries :
          \E i, j \in 1..Len(written_entries[name]) :
              /\ written_entries[name][i].model_a = DEEPSINK
              /\ written_entries[name][j].model_a # DEEPSINK
              /\ \E r \in renders : r.left_video[1] # DEEPSINK /\ r.output[1] = name

\* C28: the placement of a video does not depend on which renders fail.  Over runs of
\* the builder on the same folders, whatever renders fail in each, every comparison
\* video is rendered with the same left and right input each time, and the entry a
\* run makes for a video is the entry the sheet of an earlier run holds for it.
C28_PlacementIgnoresFailures ==
    /\ \A r1, r2 \in renders : r1.output = r2.output => r1 = r2
    /\ (bpc = "loop" /\ CurSet.name \in DOMAIN written_entries) =>
          \A i \in 1..Len(order_sheet_entries) :
              \A j \in 1..Len(written_entries[CurSet.name]) :
                  order_sheet_entries[i].filename = written_entries[CurSet.name][j].filename
                      => order_sheet_entries[i] = written_entries[CurSet.name][j]

\* a second run in which the first clip is rendered after its render failed in the
\* run before, the second clip rendered in both
C28_Witness ==
    /\ bpc = "loop"
    /\ setIdx = 1
    /\ todo = <<>>
    /\ CurSet.name \in DOMAIN written_entries
    /\ Len(written_entries[CurSet.name]) = 1
    /\ written_entries[CurSet.name][1].filename = <<BaseNames[2], ".mp4">>
    /\ Len(order_sheet_entries) = 2

(* ------------------- claims on items that cannot be used ---------------- *)

\* C25: no single response item aborts an aggregation run.  Over records that hold
\* choices outside 'A' and 'B', responses of other shapes and responses for videos
\* the order sheet does not hold, visualize_user_study.analyze_results returns its
\* counts without raising, process_single_result_file yields a row for every response
\* of every record, and process_user_responses yields the rows of every response that
\* decodes.
C25_NoItemAborts ==
    /\ report.tool \in {"analyze_results", "visualize_user_study"} =>
          ~report.analysis.raised
    /\ report.tool = "aggregate_results" =>
          Len(report.responses) = Len(AllItems(records))
    /\ report.tool = "aggregate_results_from_github" =>
          \A i \in 1..Len(AllItems(records)) :
              LET rows == github_item_rows(order_sheets, AllItems(records)[i])
              IN \A k \in 1..Len(rows) :
                    \E j \in 1..Len(report.responses) : report.responses[j] = rows[k]

(* ------------------- claims on the two analyses of a pair --------------- *)

\* a response is a string or holds answers, and its choices are 'A' or 'B'
PlainResponse(data) ==
    \/ IsStr(data) /\ data.s \in {"A", "B"}
    \/ /\ HasKey(data, "answers")
       /\ \A q \in {fixed_question_names[i] : i \in 1..Len(fixed_question_names)} :
             AnswersGet(data.answers, q) \in {"A", "B", NoChoice}

\* the order sheets hold, for the video of an item, an entry that places the left
\* model of the pair's name as Model A and the right model as Model B
PlacedAsNamed(item, sheets) ==
    LET models == Split(item.comparison, <<"_vs_">>)
        dec == decode_choice(item.comparison, item.video, Str("A"), sheets)
    IN /\ Len(models) = 2
       /\ dec.chosen = models[1]
       /\ dec.other = models[2]

\* C30: on records whose responses are strings or answers with choices 'A' or 'B',
\* every video they name having an order-sheet entry with Model A = the left model of
\* the pair's name and Model B = the right one, analyze_results_with_order_sheets
\* and analyze_results_old_way compute the same wins and totals for every question
\* and model.
C30_OldWayAgrees ==
    (/\ report.tool = "collect_simple_fixed"
     /\ report.loaded
     /\ records # <<>>
     /\ \A i \in 1..Len(AllItems(records)) :
           /\ PlainResponse(AllItems(records)[i].data)
           /\ PlacedAsNamed(AllItems(records)[i], fixed_load_order_sheets(order_sheet_file))) =>
        SameCounts(report.analysis, analyze_results_old_way(records))

\* two such records, one with a string and one with answers, a baseline winning
C30_Witness ==
    /\ report.tool = "collect_simple_fixed"
    /\ report.loaded
    /\ Len(records) = 2
    /\ \A i \in 1..Len(AllItems(records)) :
          /\ PlainResponse(AllItems(records)[i].data)
          /\ PlacedAsNamed(AllItems(records)[i], fixed_load_order_sheets(order_sheet_file))
    /\ \E i \in 1..Len(AllItems(records)) : IsStr(AllItems(records)[i].data)
    /\ \E i \in 1..Len(AllItems(records)) : HasKey(AllItems(records)[i].data, "answers")
    /\ \E m \in Models \ {DEEPSINK} :
          Get0(report.analysis.questions["dynamic_motion"].model_wins, m) = 1
====
